---- MODULE Spec2Model ----
(***************************************************************************)
(* MIRIX raw-memory manager: cache-coherent CRUD over a relational store   *)
(* with an optional cache provider, row-locked updates and cursor          *)
(* pagination.  Modelled from src/mirix/services/raw_memory_manager.py and *)
(* src/mirix/database/cache_provider.py.                                   *)
(***************************************************************************)
EXTENDS Integers, Sequences, FiniteSets, TLC

VARIABLES
    store,                  \* raw_memory table: id -> ORM row
    users,                  \* users table: user id -> row
    cache,                  \* provider object -> (cache key -> JSON document)
    cache_providers,        \* _cache_providers: name -> provider object
    active_provider_name,   \* _active_provider_name
    now,                    \* wall clock (datetime.now)
    result,                 \* outcome of the last manager call
    store0,                 \* the same calls replayed with no provider: table
    users0,                 \* ... and users table
    result0,                \* ... and outcome
    creator,                \* history: id -> actor that created the row
    hist,                   \* history: the last update or delete that succeeded
    procs,                  \* concurrent callers: thread -> call frame
    rowlock,                \* id -> thread holding the FOR UPDATE row lock
    pager                   \* a client following next_cursor page by page

vars == <<store, users, cache, cache_providers, active_provider_name, now,
          result, store0, users0, result0, creator, hist, procs, rowlock, pager>>

----------------------------------------------------------------------------
(* Bounds of the model *)

\* clock values 0..MaxClock
MaxClock == 1
\* longest context, counted in fragments and separators
MaxCtxLen == 3

(* Values *)

\* Python None
NoneStr == "None"

\* record ids, standing for strings in collation order
IDS == {1, 2}

ORGS == {"org1", "org2"}

SCOPES == {"read_write", "admin"}

\* clients: (organization, scope) identities
ACTORS == {
    [id |-> "client-1", organization_id |-> "org1", scope |-> "read_write"],
    [id |-> "client-2", organization_id |-> "org1", scope |-> "admin"],
    [id |-> "client-3", organization_id |-> "org2", scope |-> "read_write"] }

USERS == {"u1", "u2"}

\* the blank line update_raw_memory puts between appended fragments
SEP == "\n\n"

RAW_MEMORY_PREFIX == "raw_memory:"

DEFAULT_TIME_ZONE == "UTC (UTC+00:00)"

PROVIDER_OBJECTS == {"P1", "P2"}

PROVIDER_NAMES == {"redis", "ips_cache"}

----------------------------------------------------------------------------
(* Dictionaries (filter_tags) *)

EmptyDict == [k \in {} |-> NoneStr]

\* d.get(k)
DictGet(d, k) == IF k \in DOMAIN d THEN d[k] ELSE NoneStr

\* {**a, **b}
DictMerge(a, b) ==
    [k \in (DOMAIN a) \cup (DOMAIN b) |-> IF k \in DOMAIN b THEN b[k] ELSE a[k]]

\* d[k] = v
DictSet(d, k, v) == [x \in (DOMAIN d) \cup {k} |-> IF x = k THEN v ELSE d[x]]

\* del d[k]
DictDel(d, k) == [x \in (DOMAIN d) \ {k} |-> d[x]]

\* Python truthiness of an optional string
Truthy(s) == s # NoneStr /\ s # ""

\* an absent optional dictionary argument
NoTags == [some |-> FALSE, tags |-> EmptyDict]

SomeTags(t) == [some |-> TRUE, tags |-> t]

\* an absent optional string argument
NoText == [some |-> FALSE, text |-> <<>>]

SomeText(s) == [some |-> TRUE, text |-> s]

NoEmbedding == [present |-> FALSE, of |-> <<>>]

----------------------------------------------------------------------------
(* Cache provider registry *)

\* the registry: _cache_providers and _active_provider_name
Registry(reg, active) == [reg |-> reg, active |-> active]

register_cache_provider(r, name, provider) ==
    Registry(DictSet(r.reg, name, provider), name)

unregister_cache_provider_always_clears(r, name) ==
    IF name \in DOMAIN r.reg THEN Registry(DictDel(r.reg, name), NoneStr) ELSE r

unregister_cache_provider(r, name) ==
    IF name \in DOMAIN r.reg
    THEN Registry(DictDel(r.reg, name),
                  IF r.active = name THEN NoneStr ELSE r.active)
    ELSE r

\* the active name is tested for truth: None and "" both mean no provider
get_cache_provider(reg, active) ==
    IF Truthy(active) /\ active \in DOMAIN reg THEN reg[active] ELSE NoneStr

\* a mapping handed to a caller, and whether it is the registry object itself
Mapping(is_registry, map) == [is_registry |-> is_registry, map |-> map]

get_registered_providers_not_copied(reg) == Mapping(TRUE, reg)

\* dict(_cache_providers): a new dictionary with the same entries
get_registered_providers(reg) == Mapping(FALSE, reg)

CacheKey(memory_id) == <<RAW_MEMORY_PREFIX, memory_id>>

\* the provider calls that fail at present, each with the way it fails: the
\* client raises inside the provider, or the provider returns None or False
Faults(c) == IF "faults" \in DOMAIN c THEN c["faults"] ELSE EmptyDict

Failing(c, op) == op \in DOMAIN Faults(c)

get_json_faults_ignored(c, prov, key) ==
    IF key \in DOMAIN c[prov] THEN [hit |-> TRUE, doc |-> c[prov][key]]
    ELSE [hit |-> FALSE, doc |-> EmptyDict]

\* provider.get_json(key): the document, or None; None too when the call
\* fails, and the manager reads a raised error as a miss
get_json(c, prov, key) ==
    IF Failing(c, "get_json") THEN [hit |-> FALSE, doc |-> EmptyDict]
    ELSE IF key \in DOMAIN c[prov] THEN [hit |-> TRUE, doc |-> c[prov][key]]
    ELSE [hit |-> FALSE, doc |-> EmptyDict]

set_json_dropped(c, prov, key, data) == c

\* provider.set_json(key, data, ttl); a failed call writes nothing
set_json(c, prov, key, data) ==
    IF Failing(c, "set_json") THEN c
    ELSE [c EXCEPT ![prov] = DictSet(@, key, data)]

\* provider.delete(key); a failed call removes nothing
cache_delete(c, prov, key) ==
    IF Failing(c, "delete") THEN c
    ELSE [c EXCEPT ![prov] = DictDel(@, key)]

\* the entry leaves the cache at its ttl, whatever the state of the client
expire(c, prov, key) == [c EXCEPT ![prov] = DictDel(@, key)]

----------------------------------------------------------------------------
(* Rows, API items and cached documents *)

NoItem == [none |-> TRUE]

NoTime == [some |-> FALSE, t |-> 0]

SomeTime(t) == [some |-> TRUE, t |-> t]

\* datetime.isoformat()
isoformat(t) == [iso |-> t]

\* datetime.fromisoformat()
fromisoformat(s) == s.iso

\* RawMemory.to_pydantic(): the API view of a row, without the audit columns
to_pydantic(row) ==
    [id |-> row.id, context |-> row.context, filter_tags |-> row.filter_tags,
     user_id |-> row.user_id, organization_id |-> row.organization_id,
     context_embedding |-> row.context_embedding,
     embedding_config |-> row.embedding_config,
     occurred_at |-> row.occurred_at, created_at |-> row.created_at,
     updated_at |-> row.updated_at, last_modify |-> row.last_modify]

\* item.model_dump(mode="json"): datetimes become ISO-8601 strings
model_dump_json(item) ==
    [item EXCEPT !.occurred_at = isoformat(@), !.created_at = isoformat(@),
                 !.updated_at = isoformat(@)]

\* PydanticRawMemoryItem(**cached_data): ISO-8601 strings are parsed back
from_cached(doc) ==
    [doc EXCEPT !.occurred_at = fromisoformat(@), !.created_at = fromisoformat(@),
                !.updated_at = fromisoformat(@)]

\* whether embeddings are built at all (mirix.constants)
BUILD_EMBEDDINGS_FOR_MEMORY == TRUE

\* embedding_model(cfg).get_text_embedding(text), padded to MAX_EMBEDDING_DIM
pad_embeddings(text) == [present |-> TRUE, of |-> text]

----------------------------------------------------------------------------
(* Store access *)

\* RawMemory.read(db_session, identifier, actor): by id within the actor's
\* organization; absent otherwise
StoreRead(tbl, memory_id, actor) ==
    IF memory_id \in DOMAIN tbl
       /\ tbl[memory_id].organization_id = actor.organization_id
    THEN [found |-> TRUE, row |-> tbl[memory_id]]
    ELSE [found |-> FALSE, row |-> NoItem]

\* select(RawMemory).where(RawMemory.id == memory_id): by id alone
SelectById(tbl, memory_id) ==
    IF memory_id \in DOMAIN tbl
    THEN [found |-> TRUE, row |-> tbl[memory_id]]
    ELSE [found |-> FALSE, row |-> NoItem]

\* the user row create_raw_memory provisions for an unknown user_id
AutoUser(user_id, actor) ==
    [id |-> user_id, name |-> user_id, organization_id |-> actor.organization_id,
     timezone |-> DEFAULT_TIME_ZONE, status |-> "active",
     is_deleted |-> FALSE, is_admin |-> FALSE]

EnsureUser_skipped(utbl, user_id, actor) == utbl

\* user_manager.get_user_by_id / create_user in create_raw_memory
EnsureUser(utbl, user_id, actor) ==
    IF user_id \in DOMAIN utbl THEN utbl
    ELSE DictSet(utbl, user_id, AutoUser(user_id, actor))

----------------------------------------------------------------------------
(* RawMemoryManager: the handlers as functions of the tables and the cache *)

Tables(tbl, utbl, c) == [store |-> tbl, users |-> utbl, cache |-> c]

\* what a call hands back: a returned value or the exception it raised
Res(op, memory_id, actor, args, kind, item) ==
    [op |-> op, memory_id |-> memory_id, actor |-> actor, args |-> args,
     kind |-> kind, item |-> item]

NoActor == [id |-> NoneStr, organization_id |-> NoneStr, scope |-> NoneStr]

NoArgs == [none |-> TRUE]

Idle == Res("none", 0, NoActor, NoArgs, "none", NoItem)

Out(st, res) == [st |-> st, res |-> res]

\* create_raw_memory: the scope tag is the actor's, whatever the caller sent
InjectScope(filter_tags, actor) ==
    DictSet(IF filter_tags.some THEN filter_tags.tags ELSE EmptyDict,
            "scope", actor.scope)

CreateEmbedding_failure_ignored(context, agent_state, embed_ok) ==
    IF BUILD_EMBEDDINGS_FOR_MEMORY /\ agent_state # NoneStr
    THEN pad_embeddings(context) ELSE NoEmbedding

\* create_raw_memory: embedding of the context, or none
CreateEmbedding(context, agent_state, embed_ok) ==
    IF BUILD_EMBEDDINGS_FOR_MEMORY /\ agent_state # NoneStr /\ embed_ok
    THEN pad_embeddings(context) ELSE NoEmbedding

\* create_raw_memory: the row built from the request
NewRow(raw_memory, actor, user_id, agent_state, embed_ok, client_id, t) ==
    LET emb == CreateEmbedding(raw_memory.context, agent_state, embed_ok) IN
    [id |-> raw_memory.id,
     context |-> raw_memory.context,
     filter_tags |-> InjectScope(raw_memory.filter_tags, actor),
     user_id |-> user_id,
     organization_id |-> actor.organization_id,
     context_embedding |-> emb,
     embedding_config |-> IF emb.present THEN agent_state ELSE NoneStr,
     occurred_at |-> IF raw_memory.occurred_at.some
                     THEN raw_memory.occurred_at.t ELSE t,
     created_at |-> t,
     updated_at |-> t,
     last_modify |-> [timestamp |-> isoformat(t), operation |-> "created"],
     created_by_id |-> IF client_id = NoneStr THEN actor.id ELSE client_id,
     last_updated_by_id |-> NoneStr]

\* RawMemory.create_with_redis(session, actor, use_cache): insert the row and,
\* with a provider and use_cache, cache its serialized form
create_with_redis(st, prov, row, use_cache) ==
    Tables(DictSet(st.store, row.id, row), st.users,
           IF use_cache /\ prov # NoneStr
           THEN set_json(st.cache, prov, CacheKey(row.id),
                         model_dump_json(to_pydantic(row)))
           ELSE st.cache)

create_raw_memory_user_checked_late(st, prov, raw_memory, actor, user_id, agent_state, embed_ok, client_id, use_cache, t) ==
    LET args == [raw_memory |-> raw_memory, user_id |-> user_id]
        st1 == [st EXCEPT !.users = EnsureUser(@, user_id, actor)]
        row == NewRow(raw_memory, actor, user_id, agent_state, embed_ok,
                      client_id, t)
    IN
    IF ~Truthy(user_id)
    THEN Out(st1, Res("create", raw_memory.id, actor, args,
                      "ValueError: user_id is required", NoItem))
    ELSE IF raw_memory.context = <<>>
    THEN Out(st1, Res("create", raw_memory.id, actor, args,
                      "ValueError: context is missing or empty", NoItem))
    ELSE Out(create_with_redis(st1, prov, row, use_cache),
             Res("create", raw_memory.id, actor, args, "ok", to_pydantic(row)))

create_raw_memory_context_checked_first(st, prov, raw_memory, actor, user_id, agent_state, embed_ok, client_id, use_cache, t) ==
    LET args == [raw_memory |-> raw_memory, user_id |-> user_id]
        st1 == [st EXCEPT !.users = EnsureUser(@, user_id, actor)]
        row == NewRow(raw_memory, actor, user_id, agent_state, embed_ok,
                      client_id, t)
    IN
    IF ~Truthy(user_id)
    THEN Out(st, Res("create", raw_memory.id, actor, args,
                     "ValueError: user_id is required", NoItem))
    ELSE IF raw_memory.context = <<>>
    THEN Out(st, Res("create", raw_memory.id, actor, args,
                     "ValueError: context is missing or empty", NoItem))
    ELSE Out(create_with_redis(st1, prov, row, use_cache),
             Res("create", raw_memory.id, actor, args, "ok", to_pydantic(row)))

create_raw_memory(st, prov, raw_memory, actor, user_id, agent_state, embed_ok, client_id, use_cache, t) ==
    LET args == [raw_memory |-> raw_memory, user_id |-> user_id] IN
    IF ~Truthy(user_id)
    THEN Out(st, Res("create", raw_memory.id, actor, args,
                     "ValueError: user_id is required", NoItem))
    ELSE
    LET st1 == [st EXCEPT !.users = EnsureUser(@, user_id, actor)]
        row == NewRow(raw_memory, actor, user_id, agent_state, embed_ok,
                      client_id, t)
    IN
    IF raw_memory.context = <<>>
    THEN Out(st1, Res("create", raw_memory.id, actor, args,
                      "ValueError: context is missing or empty", NoItem))
    ELSE Out(create_with_redis(st1, prov, row, use_cache),
             Res("create", raw_memory.id, actor, args, "ok", to_pydantic(row)))

CacheHitDenied_user_only(item, actor, user_id) ==
    Truthy(user_id) /\ item.user_id # user_id

\* get_raw_memory_by_id, cache HIT: the scope and user checks on the cached item
CacheHitDenied(item, actor, user_id) ==
    \/ DictGet(item.filter_tags, "scope") # actor.scope
    \/ (Truthy(user_id) /\ item.user_id # user_id)

StoreReadDenied_scope_only(item, actor, user_id) ==
    DictGet(item.filter_tags, "scope") # actor.scope

\* get_raw_memory_by_id, store path: the scope and user checks on the row read
StoreReadDenied(item, actor, user_id) ==
    \/ DictGet(item.filter_tags, "scope") # actor.scope
    \/ (Truthy(user_id) /\ item.user_id # user_id)

get_raw_memory_by_id_populated_before_checks(st, prov, memory_id, actor, user_id) ==
    LET args   == [user_id |-> user_id]
        cached == IF prov # NoneStr
                  THEN get_json(st.cache, prov, CacheKey(memory_id))
                  ELSE [hit |-> FALSE, doc |-> EmptyDict]
        read   == StoreRead(st.store, memory_id, actor)
        denied == Res("get", memory_id, actor, args, "NoResultFound", NoItem)
        filled == [st EXCEPT !.cache =
                       IF prov # NoneStr /\ read.found
                       THEN set_json(@, prov, CacheKey(memory_id),
                                     model_dump_json(to_pydantic(read.row)))
                       ELSE @]
    IN
    IF cached.hit
    THEN IF CacheHitDenied(from_cached(cached.doc), actor, user_id)
         THEN Out(st, denied)
         ELSE Out(st, Res("get", memory_id, actor, args, "ok",
                          from_cached(cached.doc)))
    ELSE IF ~read.found \/ StoreReadDenied(to_pydantic(read.row), actor, user_id)
         THEN Out(filled, denied)
         ELSE Out(filled,
                  Res("get", memory_id, actor, args, "ok", to_pydantic(read.row)))

get_raw_memory_by_id(st, prov, memory_id, actor, user_id) ==
    LET args   == [user_id |-> user_id]
        cached == IF prov # NoneStr
                  THEN get_json(st.cache, prov, CacheKey(memory_id))
                  ELSE [hit |-> FALSE, doc |-> EmptyDict]
        read   == StoreRead(st.store, memory_id, actor)
        denied == Res("get", memory_id, actor, args, "NoResultFound", NoItem)
    IN
    IF cached.hit
    THEN IF CacheHitDenied(from_cached(cached.doc), actor, user_id)
         THEN Out(st, denied)
         ELSE Out(st, Res("get", memory_id, actor, args, "ok",
                          from_cached(cached.doc)))
    ELSE IF ~read.found \/ StoreReadDenied(to_pydantic(read.row), actor, user_id)
         THEN Out(st, denied)
         ELSE Out([st EXCEPT !.cache =
                       IF prov # NoneStr
                       THEN set_json(@, prov, CacheKey(memory_id),
                                     model_dump_json(to_pydantic(read.row)))
                       ELSE @],
                  Res("get", memory_id, actor, args, "ok", to_pydantic(read.row)))

UpdateCheck_no_tamper_check(sel, actor, user_id, new_filter_tags) ==
    IF ~sel.found THEN "ValueError: not found"
    ELSE IF sel.row.organization_id # actor.organization_id
    THEN "ValueError: Access denied (organization)"
    ELSE IF DictGet(sel.row.filter_tags, "scope") # actor.scope
    THEN "ValueError: Access denied (scope)"
    ELSE IF Truthy(user_id) /\ sel.row.user_id # user_id
    THEN "ValueError: not found"
    ELSE "ok"

UpdateCheck_no_organization_check(sel, actor, user_id, new_filter_tags) ==
    IF ~sel.found THEN "ValueError: not found"
    ELSE IF DictGet(sel.row.filter_tags, "scope") # actor.scope
    THEN "ValueError: Access denied (scope)"
    ELSE IF Truthy(user_id) /\ sel.row.user_id # user_id
    THEN "ValueError: not found"
    ELSE IF new_filter_tags.some /\ "scope" \in DOMAIN new_filter_tags.tags
            /\ new_filter_tags.tags["scope"] # actor.scope
    THEN "ValueError: Cannot change memory scope"
    ELSE "ok"

UpdateCheck_missing_row_denied(sel, actor, user_id, new_filter_tags) ==
    IF ~sel.found THEN "ValueError: Access denied (organization)"
    ELSE IF sel.row.organization_id # actor.organization_id
    THEN "ValueError: Access denied (organization)"
    ELSE IF DictGet(sel.row.filter_tags, "scope") # actor.scope
    THEN "ValueError: Access denied (scope)"
    ELSE IF Truthy(user_id) /\ sel.row.user_id # user_id
    THEN "ValueError: not found"
    ELSE IF new_filter_tags.some /\ "scope" \in DOMAIN new_filter_tags.tags
            /\ new_filter_tags.tags["scope"] # actor.scope
    THEN "ValueError: Cannot change memory scope"
    ELSE "ok"

\* update_raw_memory: the checks between taking the row lock and the first
\* write; "ok", or the ValueError raised
UpdateCheck(sel, actor, user_id, new_filter_tags) ==
    IF ~sel.found THEN "ValueError: not found"
    ELSE IF sel.row.organization_id # actor.organization_id
    THEN "ValueError: Access denied (organization)"
    ELSE IF DictGet(sel.row.filter_tags, "scope") # actor.scope
    THEN "ValueError: Access denied (scope)"
    ELSE IF Truthy(user_id) /\ sel.row.user_id # user_id
    THEN "ValueError: not found"
    ELSE IF new_filter_tags.some /\ "scope" \in DOMAIN new_filter_tags.tags
            /\ new_filter_tags.tags["scope"] # actor.scope
    THEN "ValueError: Cannot change memory scope"
    ELSE "ok"

UpdateContext_prepended(context, new_context, context_update_mode) ==
    IF ~new_context.some THEN context
    ELSE IF context_update_mode = "append"
    THEN new_context.text \o <<SEP>> \o context
    ELSE new_context.text

\* update_raw_memory: append puts a blank line and the new text after the old
UpdateContext(context, new_context, context_update_mode) ==
    IF ~new_context.some THEN context
    ELSE IF context_update_mode = "append"
    THEN context \o <<SEP>> \o new_context.text
    ELSE new_context.text

UpdateFilterTags_scope_dropped(filter_tags, new_filter_tags, tags_merge_mode) ==
    IF ~new_filter_tags.some THEN filter_tags
    ELSE IF tags_merge_mode = "merge"
    THEN DictMerge(filter_tags, new_filter_tags.tags)
    ELSE new_filter_tags.tags

UpdateFilterTags_replace_merges(filter_tags, new_filter_tags, tags_merge_mode) ==
    IF ~new_filter_tags.some THEN filter_tags
    ELSE DictMerge(filter_tags, new_filter_tags.tags)

UpdateFilterTags_merge_replaces(filter_tags, new_filter_tags, tags_merge_mode) ==
    IF ~new_filter_tags.some THEN filter_tags
    ELSE DictSet(new_filter_tags.tags, "scope", DictGet(filter_tags, "scope"))

\* update_raw_memory: merge lays the new tags over the old; replace keeps
\* only the new tags and the old scope
UpdateFilterTags(filter_tags, new_filter_tags, tags_merge_mode) ==
    IF ~new_filter_tags.some THEN filter_tags
    ELSE IF tags_merge_mode = "merge"
    THEN DictMerge(filter_tags, new_filter_tags.tags)
    ELSE LET preserved_scope == DictGet(filter_tags, "scope") IN
         IF Truthy(preserved_scope)
         THEN DictSet(new_filter_tags.tags, "scope", preserved_scope)
         ELSE new_filter_tags.tags

UpdatedRow_timestamps_kept(row, actor, u, t) ==
    [row EXCEPT
       !.context = UpdateContext(@, u.new_context, u.context_update_mode),
       !.filter_tags = UpdateFilterTags(@, u.new_filter_tags, u.tags_merge_mode),
       !.last_updated_by_id = actor.id]

\* update_raw_memory: the row as written back (lines 349-399)
UpdatedRow(row, actor, u, t) ==
    LET ctx   == UpdateContext(row.context, u.new_context, u.context_update_mode)
        regen == BUILD_EMBEDDINGS_FOR_MEMORY /\ u.agent_state # NoneStr
                 /\ u.new_context.some /\ u.embed_ok
    IN
    [row EXCEPT
       !.context = ctx,
       !.filter_tags = UpdateFilterTags(@, u.new_filter_tags, u.tags_merge_mode),
       !.context_embedding = IF regen THEN pad_embeddings(ctx) ELSE @,
       !.embedding_config = IF regen THEN u.agent_state ELSE @,
       !.updated_at = t,
       !.last_modify = [timestamp |-> isoformat(t), operation |-> "updated"],
       !.last_updated_by_id = actor.id]

InvalidateCache_skipped(c, prov, memory_id) == c

\* update_raw_memory: the cache entry is dropped after the commit
InvalidateCache(c, prov, memory_id) ==
    IF prov # NoneStr THEN cache_delete(c, prov, CacheKey(memory_id)) ELSE c

\* u: [new_context, new_filter_tags, agent_state, embed_ok,
\*     context_update_mode, tags_merge_mode, user_id]
update_raw_memory(st, prov, memory_id, actor, u, t) ==
    LET sel   == SelectById(st.store, memory_id)
        check == UpdateCheck(sel, actor, u.user_id, u.new_filter_tags)
    IN
    IF check # "ok"
    THEN Out(st, Res("update", memory_id, actor, u, check, NoItem))
    ELSE LET row == UpdatedRow(sel.row, actor, u, t) IN
         Out(Tables(DictSet(st.store, memory_id, row), st.users,
                    InvalidateCache(st.cache, prov, memory_id)),
             Res("update", memory_id, actor, u, "ok", to_pydantic(row)))

\* delete_raw_memory: the row is deleted, then the cache entry is dropped
DeleteCommit_unguarded(st, prov, memory_id) ==
    IF prov = NoneStr THEN st
    ELSE Tables(DictDel(st.store, memory_id), st.users,
                cache_delete(st.cache, prov, CacheKey(memory_id)))

DeleteCommit_cache_kept(st, prov, memory_id) ==
    Tables(DictDel(st.store, memory_id), st.users, st.cache)

DeleteCommit(st, prov, memory_id) ==
    Tables(DictDel(st.store, memory_id), st.users,
           InvalidateCache(st.cache, prov, memory_id))

delete_raw_memory_absent_raises(st, prov, memory_id, actor, user_id) ==
    LET args == [user_id |-> user_id]
        read == StoreRead(st.store, memory_id, actor)
    IN
    IF ~read.found
    THEN Out(st, Res("delete", memory_id, actor, args, "NoResultFound", NoItem))
    ELSE IF DictGet(read.row.filter_tags, "scope") # actor.scope
    THEN Out(st, Res("delete", memory_id, actor, args,
                     "ValueError: Access denied (scope)", NoItem))
    ELSE IF Truthy(user_id) /\ read.row.user_id # user_id
    THEN Out(st, Res("delete", memory_id, actor, args, "False", NoItem))
    ELSE Out(DeleteCommit(st, prov, memory_id),
             Res("delete", memory_id, actor, args, "True", NoItem))

delete_raw_memory(st, prov, memory_id, actor, user_id) ==
    LET args == [user_id |-> user_id]
        read == StoreRead(st.store, memory_id, actor)
    IN
    IF ~read.found
    THEN Out(st, Res("delete", memory_id, actor, args, "False", NoItem))
    ELSE IF DictGet(read.row.filter_tags, "scope") # actor.scope
    THEN Out(st, Res("delete", memory_id, actor, args,
                     "ValueError: Access denied (scope)", NoItem))
    ELSE IF Truthy(user_id) /\ read.row.user_id # user_id
    THEN Out(st, Res("delete", memory_id, actor, args, "False", NoItem))
    ELSE Out(DeleteCommit(st, prov, memory_id),
             Res("delete", memory_id, actor, args, "True", NoItem))

----------------------------------------------------------------------------
(* Requests the callers make *)

Tag(k, v) == [x \in {k} |-> v]

\* create requests: no tags, an ordinary tag, a caller-supplied scope
CREATE_TAGS == {NoTags, SomeTags(Tag("k1", "x")), SomeTags(Tag("scope", "admin"))}

Upd(new_context, context_update_mode, new_filter_tags, tags_merge_mode, user_id) ==
    [new_context |-> new_context, new_filter_tags |-> new_filter_tags,
     agent_state |-> NoneStr, embed_ok |-> TRUE,
     context_update_mode |-> context_update_mode,
     tags_merge_mode |-> tags_merge_mode, user_id |-> user_id]

\* update requests: context only, tags only, both, neither
UPDATES ==
    { Upd(SomeText(<<"c2">>), "append", NoTags, "replace", NoneStr),
      Upd(SomeText(<<"c2">>), "replace", NoTags, "replace", NoneStr),
      Upd(NoText, "replace", NoTags, "replace", NoneStr),
      Upd(NoText, "replace", SomeTags(Tag("k2", "y")), "merge", NoneStr),
      Upd(NoText, "replace", SomeTags(Tag("k2", "y")), "replace", NoneStr),
      Upd(NoText, "replace", SomeTags(EmptyDict), "replace", NoneStr),
      Upd(NoText, "replace", SomeTags(Tag("scope", "read_write")), "replace", NoneStr),
      Upd(NoText, "replace", SomeTags(Tag("scope", "")), "merge", NoneStr),
      Upd(SomeText(<<"c2">>), "replace", SomeTags(Tag("scope", "admin")), "merge", NoneStr),
      Upd(SomeText(<<"c2">>), "append",
          SomeTags(DictSet(Tag("scope", "admin"), "k2", "y")), "replace", NoneStr) }

EmptyCache == [p \in PROVIDER_OBJECTS |-> EmptyDict]

----------------------------------------------------------------------------
(* Sequential callers: every handler runs to completion *)

Provider == get_cache_provider(cache_providers, active_provider_name)

Here == Tables(store, users, cache)

\* the replay with no provider registered
Bare == Tables(store0, users0, EmptyCache)

\* whether the active provider holds a document for the id
Cached(memory_id) ==
    Provider # NoneStr /\ CacheKey(memory_id) \in DOMAIN cache[Provider]

NoHist == [op |-> "none", memory_id |-> 0, actor |-> NoActor, cached |-> FALSE,
           item |-> NoItem]

\* a mutation that succeeded, and whether the id was cached when it began
Done(op, memory_id, actor, item) ==
    [op |-> op, memory_id |-> memory_id, actor |-> actor,
     cached |-> Cached(memory_id), item |-> item]

\* a caller paging through search results: its query, the cursor it sent and
\* the one it got back, the ids of the last page and of all pages so far, and
\* whether the table changed since it began
NoPager == [active |-> FALSE, q |-> NoArgs, given |-> NoneStr, cursor |-> NoneStr,
            kind |-> "none", page |-> <<>>, seen |-> <<>>, done |-> FALSE,
            dirty |-> FALSE]

Touched(pg, tbl, tbl2) ==
    IF pg.active /\ tbl2 # tbl THEN [pg EXCEPT !.dirty = TRUE] ELSE pg

Commit(out, out0) ==
    /\ store' = out.st.store
    /\ users' = out.st.users
    /\ cache' = out.st.cache
    /\ result' = out.res
    /\ store0' = out0.st.store
    /\ users0' = out0.st.users
    /\ result0' = out0.res

CreateAt(memory_id, actor, user_id, filter_tags, use_cache, occurred_at) ==
    /\ memory_id \notin DOMAIN store
    /\ LET req == [id |-> memory_id, context |-> <<"c1">>,
                   filter_tags |-> filter_tags, occurred_at |-> occurred_at]
       IN Commit(create_raw_memory(Here, Provider, req, actor, user_id, NoneStr,
                                   TRUE, NoneStr, use_cache, now),
                 create_raw_memory(Bare, NoneStr, req, actor, user_id, NoneStr,
                                   TRUE, NoneStr, use_cache, now))
    /\ creator' = DictSet(creator, memory_id, actor)
    /\ hist' = IF hist.memory_id = memory_id THEN NoHist ELSE hist
    /\ pager' = Touched(pager, store, store')
    /\ UNCHANGED <<cache_providers, active_provider_name, now, procs, rowlock>>

Create(memory_id, actor, user_id, filter_tags, use_cache) ==
    CreateAt(memory_id, actor, user_id, filter_tags, use_cache, NoTime)

Get(memory_id, actor, user_id) ==
    /\ Commit(get_raw_memory_by_id(Here, Provider, memory_id, actor, user_id),
              get_raw_memory_by_id(Bare, NoneStr, memory_id, actor, user_id))
    /\ UNCHANGED <<cache_providers, active_provider_name, now, creator, hist,
                   procs, rowlock, pager>>

Update(memory_id, actor, u) ==
    /\ memory_id \in DOMAIN store =>
         Len(UpdateContext(store[memory_id].context, u.new_context,
                           u.context_update_mode)) <= MaxCtxLen
    /\ Commit(update_raw_memory(Here, Provider, memory_id, actor, u, now),
              update_raw_memory(Bare, NoneStr, memory_id, actor, u, now))
    /\ hist' = IF result'.kind = "ok"
               THEN Done("update", memory_id, actor, result'.item) ELSE hist
    /\ pager' = Touched(pager, store, store')
    /\ UNCHANGED <<cache_providers, active_provider_name, now, creator, procs,
                   rowlock>>

Delete(memory_id, actor, user_id) ==
    /\ Commit(delete_raw_memory(Here, Provider, memory_id, actor, user_id),
              delete_raw_memory(Bare, NoneStr, memory_id, actor, user_id))
    /\ hist' = IF result'.kind = "True"
               THEN Done("delete", memory_id, actor, NoItem) ELSE hist
    /\ pager' = Touched(pager, store, store')
    /\ UNCHANGED <<cache_providers, active_provider_name, now, creator, procs,
                   rowlock>>

\* time passes
Tick ==
    /\ now < MaxClock
    /\ now' = now + 1
    /\ UNCHANGED <<store, users, cache, cache_providers, active_provider_name,
                   result, store0, users0, result0, creator, hist, procs, rowlock,
                   pager>>

\* a cached document reaches its ttl
CacheExpire(prov, memory_id) ==
    /\ CacheKey(memory_id) \in DOMAIN cache[prov]
    /\ cache' = expire(cache, prov, CacheKey(memory_id))
    /\ UNCHANGED <<store, users, cache_providers, active_provider_name, now,
                   result, store0, users0, result0, creator, hist, procs, rowlock,
                   pager>>

NoProcs == [p \in {} |-> NoneStr]


InitTables ==
    /\ store = EmptyDict
    /\ users = EmptyDict
    /\ cache = EmptyCache
    /\ now = 0
    /\ result = Idle
    /\ store0 = EmptyDict
    /\ users0 = EmptyDict
    /\ result0 = Idle
    /\ creator = EmptyDict
    /\ hist = NoHist
    /\ rowlock = EmptyDict

\* a process starts with no provider, or with one registered at start-up
Init ==
    /\ InitTables
    /\ \/ cache_providers = EmptyDict /\ active_provider_name = NoneStr
       \/ cache_providers = Tag("redis", "P1") /\ active_provider_name = "redis"
    /\ procs = NoProcs
    /\ pager = NoPager

\* the calls of sequential callers over the given ids, creators and readers
SeqNext(ids, creators, actors, ctags, updates, user_ids) ==
    \/ \E i \in ids, a \in creators, g \in ctags, uc \in BOOLEAN :
          Create(i, a, "u1", g, uc)
    \/ \E i \in ids, a \in actors, uid \in user_ids : Get(i, a, uid)
    \/ \E i \in ids, a \in actors, u \in updates : Update(i, a, u)
    \/ \E i \in ids, a \in actors, uid \in user_ids : Delete(i, a, uid)
    \/ Tick
    \/ \E p \in PROVIDER_OBJECTS, i \in ids : CacheExpire(p, i)

Client(n) == CHOOSE a \in ACTORS : a.id = n

Next == SeqNext({1}, {Client("client-1"), Client("client-2")}, ACTORS,
                CREATE_TAGS, UPDATES, {NoneStr, "u1", "u2"})

Spec == Init /\ [][Next]_vars

\* two records side by side, one writer and a reader of another scope
NextTwo == SeqNext(IDS, {Client("client-1")}, {Client("client-1"), Client("client-2")},
                   {NoTags},
                   {Upd(SomeText(<<"c2">>), "append", NoTags, "replace", NoneStr)},
                   {NoneStr})

SpecTwo == Init /\ [][NextTwo]_vars

----------------------------------------------------------------------------
(* Properties of the sequential callers *)

UserMismatch(user_id, item) == Truthy(user_id) /\ item.user_id # user_id

C4_GetOnlyForMatchingOrgAndScope ==
    (result.op = "get" /\ result.kind = "ok")
    => /\ result.actor.organization_id = result.item.organization_id
       /\ result.actor.scope = DictGet(result.item.filter_tags, "scope")

\* C5: a get_raw_memory_by_id by an actor of the creator's organization with
\* another scope raises NoResultFound, from the cache or from the store, and
\* the creating actor still reads the record.
C5_CrossScopeGetIsNotFound ==
    (result.op = "get" /\ result.memory_id \in DOMAIN creator)
    => LET c == creator[result.memory_id] IN
       /\ (result.actor.organization_id = c.organization_id
           /\ result.actor.scope # c.scope)
          => result.kind = "NoResultFound"
       /\ (result.actor = c /\ result.memory_id \in DOMAIN store
           /\ ~UserMismatch(result.args.user_id, store[result.memory_id]))
          => (result.kind = "ok" /\ result.item.id = result.memory_id)

C5_Witness ==
    /\ result.op = "get" /\ result.kind = "NoResultFound"
    /\ result.memory_id \in DOMAIN store
    /\ Cached(result.memory_id)
    /\ result.actor.organization_id = creator[result.memory_id].organization_id
    /\ result.actor.scope # creator[result.memory_id].scope

\* C6: every stored record's filter_tags.scope is the scope of the actor that
\* created it, after the create and after every later update, and a create
\* returns the actor's scope whatever scope the caller sent.
C6_StoredScopeIsCreatorScope ==
    /\ \A i \in DOMAIN store :
          /\ "scope" \in DOMAIN store[i].filter_tags
          /\ store[i].filter_tags["scope"] = creator[i].scope
    /\ (result.op = "create" /\ result.kind = "ok")
       => DictGet(result.item.filter_tags, "scope") = result.actor.scope

C6_Witness ==
    /\ result.op = "update" /\ result.kind = "ok"
    /\ result.args.new_filter_tags.some
    /\ result.args.tags_merge_mode = "replace"
    /\ "scope" \notin DOMAIN result.args.new_filter_tags.tags
    /\ "k1" \notin DOMAIN store[result.memory_id].filter_tags
    /\ store[result.memory_id].created_by_id = "client-2"

ScopeTamper(u, actor) ==
    /\ u.new_filter_tags.some
    /\ "scope" \in DOMAIN u.new_filter_tags.tags
    /\ u.new_filter_tags.tags["scope"] # actor.scope

\* the actor may update the row: same organization, same scope
MayWrite(row, actor) ==
    /\ row.organization_id = actor.organization_id
    /\ DictGet(row.filter_tags, "scope") = actor.scope

\* C7: an update_raw_memory whose new_filter_tags carry a scope other than
\* actor.scope raises ValueError and leaves the table and the cache as they
\* were; on a record the actor may write the error is 'Cannot change memory
\* scope', and the same call with scope equal to actor.scope succeeds.
C7_ScopeTamperRejected ==
    [][LET i == result'.memory_id
           a == result'.actor
           u == result'.args
       IN (result'.op = "update" /\ Update(i, a, u)) =>
           /\ ScopeTamper(u, a) =>
                /\ result'.kind # "ok"
                /\ store' = store /\ cache' = cache
           /\ (i \in DOMAIN store /\ MayWrite(store[i], a)) =>
                IF ScopeTamper(u, a)
                THEN result'.kind = "ValueError: Cannot change memory scope"
                ELSE result'.kind = "ok"]_vars

C7_Witness ==
    /\ result.op = "update"
    /\ result.kind = "ValueError: Cannot change memory scope"
    /\ result.args.new_context.some
    /\ Cached(result.memory_id)
    /\ store[result.memory_id].updated_at < now
    /\ hist.op = "update"

\* C8: the table (and the users table) after any sequence of calls is the same
\* with a provider registered as with none, and every create, update and
\* delete has the same outcome in both.
C8_StoreSameWithoutProvider ==
    /\ store = store0
    /\ users = users0
    /\ result.op \in {"create", "update", "delete"} => result0 = result

C8_Witness ==
    /\ Provider # NoneStr
    /\ result.op = "delete" /\ result.kind = "True"
    /\ hist.cached
    /\ store # EmptyDict \/ hist.op = "delete"
    /\ store = store0

----------------------------------------------------------------------------
(* Properties of two records side by side (SpecTwo) *)

----------------------------------------------------------------------------
(* Concurrent callers: update_raw_memory step by step *)

THREADS == {"t1", "t2"}

IdleFrame == [pc |-> "idle", op |-> "none", memory_id |-> 0, actor |-> NoActor,
              args |-> NoArgs, began |-> 0, row |-> NoItem, res |-> Idle]

RowLockFree_no_for_update(locks, memory_id) == TRUE

\* .with_for_update(): the SELECT waits while another transaction holds the row
RowLockFree(locks, memory_id) == memory_id \notin DOMAIN locks

\* a thread enters update_raw_memory
BeginUpdate(p, memory_id, actor, u) ==
    /\ procs[p].pc = "idle"
    /\ procs' = [procs EXCEPT ![p] =
                   [pc |-> "select", op |-> "update", memory_id |-> memory_id,
                    actor |-> actor, args |-> u, began |-> now, row |-> NoItem,
                    res |-> Idle]]
    /\ UNCHANGED <<store, users, cache, cache_providers, active_provider_name,
                   now, result, store0, users0, result0, creator, hist, rowlock,
                   pager>>

\* SELECT ... FOR UPDATE: the row is read and locked, or there is no row
UpdateSelect(p) ==
    LET f   == procs[p]
        sel == SelectById(store, f.memory_id)
    IN
    /\ f.pc = "select"
    /\ RowLockFree(rowlock, f.memory_id)
    /\ IF sel.found
       THEN /\ rowlock' = DictSet(rowlock, f.memory_id, p)
            /\ procs' = [procs EXCEPT ![p].pc = "locked", ![p].row = sel.row]
       ELSE /\ rowlock' = rowlock
            /\ procs' = [procs EXCEPT ![p].pc = "done",
                           ![p].res = Res("update", f.memory_id, f.actor, f.args,
                                          "ValueError: not found", NoItem)]
    /\ UNCHANGED <<store, users, cache, cache_providers, active_provider_name,
                   now, result, store0, users0, result0, creator, hist, pager>>

UpdateCommit_lock_kept_on_error(p) ==
    LET f     == procs[p]
        check == UpdateCheck([found |-> TRUE, row |-> f.row], f.actor,
                             f.args.user_id, f.args.new_filter_tags)
        row   == UpdatedRow(f.row, f.actor, f.args, now)
        ref   == update_raw_memory(Bare, NoneStr, f.memory_id, f.actor, f.args, now)
    IN
    /\ f.pc = "locked"
    /\ IF check # "ok"
       THEN /\ store' = store
            /\ rowlock' = rowlock
            /\ procs' = [procs EXCEPT ![p].pc = "done",
                           ![p].res = Res("update", f.memory_id, f.actor, f.args,
                                          check, NoItem)]
       ELSE /\ store' = DictSet(store, f.memory_id, row)
            /\ rowlock' = DictDel(rowlock, f.memory_id)
            /\ procs' = [procs EXCEPT ![p].pc = "committed",
                           ![p].res = Res("update", f.memory_id, f.actor, f.args,
                                          "ok", to_pydantic(row))]
    /\ store0' = ref.st.store
    /\ result0' = ref.res
    /\ UNCHANGED <<users, cache, cache_providers, active_provider_name, now,
                   result, users0, creator, hist, pager>>

\* the checks, the changes to the row read under the lock, and the commit,
\* which writes the row and releases the lock; a failed check rolls back
UpdateCommit(p) ==
    LET f     == procs[p]
        check == UpdateCheck([found |-> TRUE, row |-> f.row], f.actor,
                             f.args.user_id, f.args.new_filter_tags)
        row   == UpdatedRow(f.row, f.actor, f.args, now)
        ref   == update_raw_memory(Bare, NoneStr, f.memory_id, f.actor, f.args, now)
    IN
    /\ f.pc = "locked"
    /\ rowlock' = DictDel(rowlock, f.memory_id)
    /\ IF check # "ok"
       THEN /\ store' = store
            /\ procs' = [procs EXCEPT ![p].pc = "done",
                           ![p].res = Res("update", f.memory_id, f.actor, f.args,
                                          check, NoItem)]
       ELSE /\ store' = DictSet(store, f.memory_id, row)
            /\ procs' = [procs EXCEPT ![p].pc = "committed",
                           ![p].res = Res("update", f.memory_id, f.actor, f.args,
                                          "ok", to_pydantic(row))]
    /\ store0' = ref.st.store
    /\ result0' = ref.res
    /\ UNCHANGED <<users, cache, cache_providers, active_provider_name, now,
                   result, users0, creator, hist, pager>>

\* after the commit the cache entry is dropped and the call returns
UpdateInvalidate(p) ==
    /\ procs[p].pc = "committed"
    /\ cache' = InvalidateCache(cache, Provider, procs[p].memory_id)
    /\ procs' = [procs EXCEPT ![p].pc = "done"]
    /\ UNCHANGED <<store, users, cache_providers, active_provider_name, now,
                   result, store0, users0, result0, creator, hist, rowlock, pager>>

\* what the racing threads ask for: appends, merges, a replace, a scope change
RACE_UPDATES ==
    { Upd(SomeText(<<"a1">>), "append", NoTags, "replace", NoneStr),
      Upd(SomeText(<<"a2">>), "append", NoTags, "replace", NoneStr),
      Upd(NoText, "replace", SomeTags(Tag("tag1", "from_thread_1")), "merge", NoneStr),
      Upd(NoText, "replace", SomeTags(Tag("tag2", "from_thread_2")), "merge", NoneStr),
      Upd(SomeText(<<"a1">>), "append", SomeTags(Tag("tag1", "from_thread_1")),
          "merge", NoneStr),
      Upd(SomeText(<<"a2">>), "replace", SomeTags(Tag("tag2", "from_thread_2")),
          "replace", NoneStr),
      Upd(SomeText(<<"a2">>), "append", SomeTags(Tag("scope", "admin")), "merge",
          NoneStr) }

\* one record, created by client-1 before the threads start
Seeded(prov, use_cache) ==
    create_raw_memory(Tables(EmptyDict, EmptyDict, EmptyCache), prov,
                      [id |-> 1, context |-> <<"c1">>,
                       filter_tags |-> SomeTags(Tag("initial_tag", "value0")),
                       occurred_at |-> NoTime],
                      Client("client-1"), "u1", NoneStr, TRUE, NoneStr,
                      use_cache, 0).st

InitRace ==
    /\ \/ cache_providers = EmptyDict /\ active_provider_name = NoneStr
       \/ cache_providers = Tag("redis", "P1") /\ active_provider_name = "redis"
    /\ LET st == Seeded(Provider, TRUE) IN
       /\ store = st.store /\ users = st.users /\ cache = st.cache
       /\ store0 = st.store /\ users0 = st.users
    /\ now = 0
    /\ result = Idle
    /\ result0 = Idle
    /\ creator = [i \in {1} |-> Client("client-1")]
    /\ hist = NoHist
    /\ rowlock = EmptyDict
    /\ procs = [p \in THREADS |-> IdleFrame]
    /\ pager = NoPager

NextRace ==
    \/ \E p \in THREADS, u \in RACE_UPDATES : BeginUpdate(p, 1, Client("client-1"), u)
    \/ \E p \in THREADS : UpdateSelect(p)
    \/ \E p \in THREADS : UpdateCommit(p)
    \/ \E p \in THREADS : UpdateInvalidate(p)
    \/ Tick

SpecRace == InitRace /\ [][NextRace]_vars

\* every thread finishes its call: a thread that can take a step takes it
FairRace == SpecRace /\ \A p \in THREADS :
                WF_vars(UpdateSelect(p) \/ UpdateCommit(p) \/ UpdateInvalidate(p))

----------------------------------------------------------------------------
(* Properties of concurrent updates of one record (SpecRace) *)

\* the call appends to the context and asks for no scope change
IsAppend(f) ==
    /\ f.op = "update" /\ f.args.new_context.some
    /\ f.args.context_update_mode = "append"
    /\ ~ScopeTamper(f.args, f.actor)

\* both calls succeeded, and both began before either had committed
Overlapped ==
    \A p, q \in THREADS : procs[p].pc = "done" /\ procs[p].res.kind = "ok"
                          /\ procs[p].began < procs[q].res.item.updated_at

\* C1: when two append updates of the same record have both returned, in
\* whatever order their steps interleaved, both succeeded and the stored
\* context is the original context followed by both fragments, in one of the
\* two orders.
C1_ConcurrentAppendsBothKept ==
    (\A p \in THREADS : procs[p].pc = "done" /\ IsAppend(procs[p]))
    => LET a == procs["t1"].args.new_context.text
           b == procs["t2"].args.new_context.text
       IN /\ \A p \in THREADS : procs[p].res.kind = "ok"
          /\ store[1].context \in {<<"c1", SEP>> \o a \o <<SEP>> \o b,
                                   <<"c1", SEP>> \o b \o <<SEP>> \o a}

C1_Witness ==
    /\ \A p \in THREADS : procs[p].pc = "done" /\ IsAppend(procs[p])
    /\ Overlapped
    /\ store[1].context = <<"c1", SEP, "a2", SEP, "a1">>
    /\ procs["t1"].args.new_context.text = <<"a1">>

\* the call merges tags and changes nothing else
IsMerge(f) ==
    /\ f.op = "update" /\ ~f.args.new_context.some
    /\ f.args.new_filter_tags.some /\ f.args.tags_merge_mode = "merge"

\* C2: concurrent updates of one record are serialized by the row lock: the
\* stored record is at all times the one obtained by running the committed
\* updates one after the other, in the order of their commits, and after two
\* merges of disjoint keys the tags hold both keys and every original tag.
C2_UpdatesSerialized ==
    /\ store = store0
    /\ (\A p \in THREADS : procs[p].pc = "done" /\ IsMerge(procs[p])
           /\ procs["t1"].args # procs["t2"].args)
       => \A p \in THREADS :
            /\ procs[p].res.kind = "ok"
            /\ store[1].filter_tags =
                 DictMerge(DictMerge(DictSet(Tag("initial_tag", "value0"),
                                             "scope", "read_write"),
                                     procs["t1"].args.new_filter_tags.tags),
                           procs["t2"].args.new_filter_tags.tags)

C2_Witness ==
    /\ Overlapped
    /\ IsMerge(procs["t2"]) /\ IsAppend(procs["t1"])
    /\ procs["t1"].args.new_filter_tags.some
    /\ store[1].context = <<"c1", SEP, "a1">>
    /\ DOMAIN store[1].filter_tags = {"scope", "initial_tag", "tag1", "tag2"}
    /\ procs["t1"].res.item.filter_tags # store[1].filter_tags

----------------------------------------------------------------------------
(* search_raw_memories *)

\* the hard maximum of limit
MAX_LIMIT == 100

Min(a, b) == IF a <= b THEN a ELSE b

VALID_SORT_FIELDS == {"updated_at", "created_at", "occurred_at"}

\* a sort string: some leading "-" characters, then a name
Sort(dashes, name) == [dashes |-> dashes, name |-> name]

\* sort.startswith("-")
StartsWithDash(sort) == sort.dashes > 0

\* sort.lstrip("-")
LStripDash(sort) == sort.name

\* getattr(row, sort_field_name)
SortValue(row, name) ==
    CASE name = "updated_at" -> row.updated_at
      [] name = "created_at" -> row.created_at
      [] name = "occurred_at" -> row.occurred_at

\* the characters of the strings that occur as scope values
Chars(s) ==
    CASE s = "read_write" -> <<"r", "e", "a", "d", "_", "w", "r", "i", "t", "e">>
      [] s = "admin" -> <<"a", "d", "m", "i", "n">>
      [] s = "WRITE" -> <<"W", "R", "I", "T", "E">>
      [] s = "a_min" -> <<"a", "_", "m", "i", "n">>
      [] s = "" -> <<>>
      [] OTHER -> <<s>>

\* str.lower(), character by character
Lower(cs) ==
    [n \in 1..Len(cs) |->
       CASE cs[n] = "W" -> "w" [] cs[n] = "R" -> "r" [] cs[n] = "I" -> "i"
         [] cs[n] = "T" -> "t" [] cs[n] = "E" -> "e" [] OTHER -> cs[n]]

\* needle occurs in hay
Contains(hay, needle) ==
    \E n \in 0..Len(hay) :
       n + Len(needle) <= Len(hay) /\ SubSeq(hay, n + 1, n + Len(needle)) = needle

RECURSIVE LikeMatch(_, _)
\* text LIKE pattern: "%" stands for any run of characters, "_" for any one
LikeMatch(text, pattern) ==
    IF pattern = <<>> THEN text = <<>>
    ELSE IF Head(pattern) = "%"
    THEN \/ LikeMatch(text, Tail(pattern))
         \/ text # <<>> /\ LikeMatch(Tail(text), pattern)
    ELSE /\ text # <<>>
         /\ Head(pattern) = "_" \/ Head(pattern) = Head(text)
         /\ LikeMatch(Tail(text), Tail(pattern))

\* column.contains(other): column LIKE '%' || other || '%', other not escaped
SqlContains(column, other) == LikeMatch(column, <<"%">> \o other \o <<"%">>)

\* one filter_tags entry against a row: exact for every key, and for the scope
\* key also the lower-cased value as a LIKE pattern on the lower-cased scope;
\* a row without the key never matches
TagMatches(row, key, value) ==
    /\ key \in DOMAIN row.filter_tags
    /\ \/ row.filter_tags[key] = value
       \/ key = "scope"
          /\ SqlContains(Lower(Chars(row.filter_tags[key])), Lower(Chars(value)))

\* no time_range argument; a time_range maps <<field, "gte" or "lte">> to a time
NoRange == [k \in {} |-> 0]

InTimeRange(row, time_range) ==
    \A name \in VALID_SORT_FIELDS :
       /\ <<name, "gte">> \in DOMAIN time_range
             => SortValue(row, name) >= time_range[<<name, "gte">>]
       /\ <<name, "lte">> \in DOMAIN time_range
             => SortValue(row, name) <= time_range[<<name, "lte">>]

\* q: [organization_id, user_id, filter_tags, sort, time_range, limit]
Query(organization_id, user_id, filter_tags, sort, time_range, limit) ==
    [organization_id |-> organization_id, user_id |-> user_id,
     filter_tags |-> filter_tags, sort |-> sort, time_range |-> time_range,
     limit |-> limit]

\* the WHERE clauses that come from the filters
Matches(row, q) ==
    /\ row.organization_id = q.organization_id
    /\ Truthy(q.user_id) => row.user_id = q.user_id
    /\ \A k \in DOMAIN q.filter_tags.tags : TagMatches(row, k, q.filter_tags.tags[k])
    /\ InTimeRange(row, q.time_range)

\* A cursor argument. some: it is not None. form: what the text is --
\*   "empty"    the empty string
\*   "padding"  base64 that b64decode rejects (binascii.Error)
\*   "utf8"     base64 of bytes that are not UTF-8
\*   "json"     base64 of text that is not JSON
\*   "object", "array", "string", "number", "null"
\*              base64 of a JSON document of that type
\* stray: the text also holds characters outside the base64 alphabet, which
\* b64decode (validate=False) discards. b64: what `x in decoded` answers for
\* the document, with the member values of an object.
Cursor(form, stray, doc) == [some |-> TRUE, form |-> form, stray |-> stray, b64 |-> doc]

\* an absent cursor argument
NoCursor == [some |-> FALSE, form |-> "none", stray |-> FALSE, b64 |-> EmptyDict]

\* base64.b64encode(json.dumps({sort_field_name: value.isoformat(), "id": id}))
EncodeCursor(name, row) ==
    Cursor("object", FALSE,
           [k \in {name, "id"} |->
              IF k = "id" THEN [id |-> row.id]
              ELSE isoformat(SortValue(row, name))])

\* `if cursor:` -- None and the empty string are no cursor
CursorGiven(cursor) == cursor.some /\ cursor.form # "empty"

\* sort_field_name in decoded_cursor and "id" in decoded_cursor
CursorWellFormed(cursor, name) ==
    name \in DOMAIN cursor.b64 /\ "id" \in DOMAIN cursor.b64

\* a JSON string that is no ISO-8601 time, a JSON number, a JSON null
NotIso == [str |-> "yesterday"]

JsonNumber == [num |-> 5]

JsonNull == [null |-> TRUE]

\* lines 529-544: "ok", or the exception that leaves the try block; of
\* ValueError, KeyError, JSONDecodeError and UnicodeDecodeError the handler
\* makes ValueError("Invalid cursor format: ..."), anything else passes through
DecodeCursor(cursor, name) ==
    CASE cursor.form \in {"padding", "utf8", "json"} ->
            "ValueError: Invalid cursor format"
      [] cursor.form \in {"number", "null"} ->
            "TypeError"                       \* `in` on an int or on None
      [] cursor.form \in {"array", "string"} ->
            IF CursorWellFormed(cursor, name)
            THEN "TypeError"                  \* decoded_cursor[sort_field_name]
            ELSE "ValueError: Invalid cursor format"
      [] cursor.form = "object" ->
            IF ~CursorWellFormed(cursor, name)
            THEN "ValueError: Invalid cursor format"
            ELSE IF "iso" \in DOMAIN cursor.b64[name] THEN "ok"
            ELSE IF "str" \in DOMAIN cursor.b64[name]
            THEN "ValueError: Invalid cursor format"
            ELSE "TypeError"                  \* fromisoformat of a non-string

\* datetime.fromisoformat(decoded_cursor[sort_field_name]), tzinfo dropped
CursorSortValue(cursor, name) == fromisoformat(cursor.b64[name])

\* decoded_cursor["id"]
CursorId(cursor) == cursor.b64["id"].id

BeyondCursor_no_tie_break(row, cursor, name, descending) ==
    IF descending
    THEN SortValue(row, name) < CursorSortValue(cursor, name)
    ELSE SortValue(row, name) > CursorSortValue(cursor, name)

\* the WHERE clause that comes from the cursor
BeyondCursor(row, cursor, name, descending) ==
    LET v == SortValue(row, name)
        c == CursorSortValue(cursor, name)
    IN IF descending
       THEN v < c \/ (v = c /\ row.id < CursorId(cursor))
       ELSE v > c \/ (v = c /\ row.id > CursorId(cursor))

\* ORDER BY sort_field, id -- or both descending
Before(r1, r2, name, descending) ==
    LET v1 == SortValue(r1, name)
        v2 == SortValue(r2, name)
    IN IF descending
       THEN v1 > v2 \/ (v1 = v2 /\ r1.id > r2.id)
       ELSE v1 < v2 \/ (v1 = v2 /\ r1.id < r2.id)

\* the rows of the given ids in that order (built around a middle id)
RECURSIVE Ordered(_, _, _, _)
Ordered(tbl, ids, name, descending) ==
    IF ids = {} THEN <<>>
    ELSE LET mid == CHOOSE x \in ids :
                      Cardinality({ y \in ids : y < x }) = Cardinality(ids) \div 2
             lo  == { i \in ids \ {mid} : Before(tbl[i], tbl[mid], name, descending) }
             hi  == ids \ (lo \cup {mid})
         IN Ordered(tbl, lo, name, descending) \o <<tbl[mid]>>
              \o Ordered(tbl, hi, name, descending)

\* seq[:n]
Take(seq, n) == SubSeq(seq, 1, Min(Len(seq), n))

SearchResult(kind, items, next_cursor) ==
    [kind |-> kind, items |-> items, next_cursor |-> next_cursor]

ClampLimit_unclamped(limit) == limit

\* limit = min(limit, 100)
ClampLimit(limit) == Min(limit, MAX_LIMIT)

search_raw_memories(tbl, q, cursor) ==
    LET limit      == ClampLimit(q.limit)
        descending == StartsWithDash(q.sort)
        name       == LStripDash(q.sort)
    IN
    IF name \notin VALID_SORT_FIELDS
    THEN SearchResult("ValueError: Invalid sort field", <<>>, NoCursor)
    ELSE IF CursorGiven(cursor) /\ DecodeCursor(cursor, name) # "ok"
    THEN SearchResult(DecodeCursor(cursor, name), <<>>, NoCursor)
    ELSE
    LET ids == { i \in DOMAIN tbl :
                   /\ Matches(tbl[i], q)
                   /\ CursorGiven(cursor) =>
                         BeyondCursor(tbl[i], cursor, name, descending) }
        fetched  == Take(Ordered(tbl, ids, name, descending), limit + 1)
        has_more == Len(fetched) > limit
        items    == IF has_more THEN Take(fetched, limit) ELSE fetched
    IN SearchResult("ok",
                    [n \in 1..Len(items) |-> to_pydantic(items[n])],
                    IF has_more /\ items # <<>>
                    THEN EncodeCursor(name, items[Len(items)])
                    ELSE NoCursor)

----------------------------------------------------------------------------
(* A caller that follows next_cursor until it is None *)

PAGE_IDS == {1, 2, 3}

\* occurred_at as the caller sends it: absent, or a past time
OCCURRED == {NoTime, SomeTime(0)}

SORTS == { Sort(d, n) : d \in {0, 1}, n \in VALID_SORT_FIELDS }

QUERY_TAGS == {NoTags, SomeTags(Tag("k1", "x")), SomeTags(Tag("scope", "WRITE"))}

QUERIES == { Query("org1", NoneStr, g, s, NoRange, k) :
               g \in QUERY_TAGS, s \in SORTS, k \in {1, 2} }

\* who creates records, and with which tags
WRITERS == { <<Client("client-1"), NoTags>>,
             <<Client("client-1"), SomeTags(Tag("k1", "x"))>>,
             <<Client("client-3"), NoTags>> }

Ids(items) == [n \in 1..Len(items) |-> items[n].id]

\* one call of search_raw_memories and what the caller keeps of it
Turned(pg, q, cursor) ==
    LET r == search_raw_memories(store, q, cursor) IN
    [active |-> TRUE, q |-> q, given |-> cursor, cursor |-> r.next_cursor,
     kind |-> r.kind, page |-> Ids(r.items), seen |-> pg.seen \o Ids(r.items),
     done |-> ~r.next_cursor.some, dirty |-> pg.dirty]

\* the first call of a run, without a cursor
PageFirst(q) ==
    /\ ~pager.active
    /\ pager' = Turned(NoPager, q, NoCursor)
    /\ UNCHANGED <<store, users, cache, cache_providers, active_provider_name,
                   now, result, store0, users0, result0, creator, hist, procs,
                   rowlock>>

\* a further call, with the cursor the previous call returned
PageNext ==
    /\ pager.active /\ ~pager.done
    /\ pager' = Turned(pager, pager.q, pager.cursor)
    /\ UNCHANGED <<store, users, cache, cache_providers, active_provider_name,
                   now, result, store0, users0, result0, creator, hist, procs,
                   rowlock>>

InitPage ==
    /\ InitTables
    /\ cache_providers = EmptyDict /\ active_provider_name = NoneStr
    /\ procs = NoProcs
    /\ pager = NoPager

NextPage ==
    \/ \E i \in PAGE_IDS, w \in WRITERS, o \in OCCURRED :
          CreateAt(i, w[1], "u1", w[2], FALSE, o)
    \/ Tick
    \/ \E q \in QUERIES : PageFirst(q)
    \/ PageNext

SpecPage == InitPage /\ [][NextPage]_vars

\* (under SpecPage)
\* the ids of the records a query selects
Selected(q) == { i \in DOMAIN store : Matches(store[i], q) }

NoDuplicates(seq) == \A m, n \in 1..Len(seq) : seq[m] = seq[n] => m = n

Range(seq) == { seq[n] : n \in 1..Len(seq) }

\* C9: while no record has been created, updated or deleted since the run
\* began, the pages handed out so far hold selected records only and none of
\* them twice; a run that is not over has handed out fewer than all of them; and
\* once next_cursor is None every selected record has been handed out exactly
\* once.
C9_PagesCoverEachRecordOnce ==
    (pager.active /\ ~pager.dirty) =>
       /\ pager.kind = "ok"
       /\ NoDuplicates(pager.seen)
       /\ Range(pager.seen) \subseteq Selected(pager.q)
       /\ pager.done => Range(pager.seen) = Selected(pager.q)
       /\ ~pager.done => Len(pager.seen) < Cardinality(Selected(pager.q))

\* a finished, undisturbed run of several pages over records that share their
\* sort timestamp, with a record the filter leaves out
C9_Witness ==
    /\ pager.active /\ pager.done /\ ~pager.dirty
    /\ pager.q.limit = 1
    /\ Len(pager.seen) >= 2
    /\ \E i, j \in Range(pager.seen) :
          /\ i # j
          /\ SortValue(store[i], pager.q.sort.name)
               = SortValue(store[j], pager.q.sort.name)
    /\ DOMAIN store \ Selected(pager.q) # {}

----------------------------------------------------------------------------
(* Access control on the write paths (Spec) *)

ACCESS_DENIED == {"ValueError: Access denied (organization)",
                  "ValueError: Access denied (scope)"}

\* an update that changes nothing but updated_at and last_modify
Touch == Upd(NoText, "replace", NoTags, "replace", NoneStr)

\* C11: update_raw_memory by an actor of another organization or another
\* scope, and delete_raw_memory by an actor of the record's organization with
\* another scope, raise the ValueError 'Access denied' and leave the table and
\* the cache as they were; after such a refusal the creating actor can still
\* update and delete the record.
C11_WrongActorWriteDenied ==
    /\ []((result.kind \in ACCESS_DENIED /\ result.memory_id \in DOMAIN store) =>
            LET i == result.memory_id IN
            /\ update_raw_memory(Here, Provider, i, creator[i], Touch, now).res.kind = "ok"
            /\ delete_raw_memory(Here, Provider, i, creator[i], NoneStr).res.kind = "True"
            /\ i \notin DOMAIN delete_raw_memory(Here, Provider, i, creator[i],
                                                  NoneStr).st.store)
    /\ [][LET i == result'.memory_id
              a == result'.actor
          IN /\ (/\ result'.op = "update" /\ Update(i, a, result'.args)
                 /\ i \in DOMAIN store /\ ~MayWrite(store[i], a))
                => /\ result'.kind \in ACCESS_DENIED
                   /\ store' = store /\ cache' = cache
             /\ (/\ result'.op = "delete" /\ Delete(i, a, result'.args.user_id)
                 /\ i \in DOMAIN store
                 /\ store[i].organization_id = a.organization_id
                 /\ DictGet(store[i].filter_tags, "scope") # a.scope)
                => /\ result'.kind = "ValueError: Access denied (scope)"
                   /\ store' = store /\ cache' = cache]_vars

\* a delete refused for the scope, on a cached record its creator had updated
C11_Witness ==
    /\ result.op = "delete"
    /\ result.kind = "ValueError: Access denied (scope)"
    /\ result.memory_id \in DOMAIN store
    /\ Cached(result.memory_id)
    /\ store[result.memory_id].last_modify.operation = "updated"

----------------------------------------------------------------------------
(* A caller that sends a cursor of its own making *)

\* a member list for a JSON document
Members(keys, v) == [k \in keys |-> IF k = "id" THEN [id |-> 1] ELSE v]

\* the cursor texts a caller may send
CURSORS ==
    { NoCursor,
      Cursor("empty", FALSE, EmptyDict),
      Cursor("padding", TRUE, EmptyDict),
      Cursor("utf8", FALSE, EmptyDict),
      Cursor("json", FALSE, EmptyDict),
      Cursor("number", FALSE, EmptyDict),
      Cursor("null", FALSE, EmptyDict),
      Cursor("array", FALSE, EmptyDict),
      Cursor("array", FALSE, Members({"updated_at", "id"}, JsonNull)),
      Cursor("string", FALSE, Members({"updated_at", "id"}, JsonNull)),
      Cursor("object", FALSE, EmptyDict),
      Cursor("object", FALSE, Members({"id"}, JsonNull)),
      Cursor("object", FALSE, Members({"created_at", "id"}, isoformat(0))),
      Cursor("object", FALSE, Members({"updated_at", "id"}, NotIso)),
      Cursor("object", FALSE, Members({"updated_at", "id"}, JsonNumber)),
      Cursor("object", FALSE, Members({"updated_at", "id"}, JsonNull)),
      Cursor("object", FALSE, Members({"updated_at", "id"}, isoformat(0))),
      Cursor("object", TRUE, Members({"updated_at", "id"}, isoformat(0))) }

CURSOR_QUERIES ==
    { Query("org1", NoneStr, NoTags, s, NoRange, k) :
        s \in {Sort(0, "updated_at"), Sort(1, "updated_at"), Sort(1, "created_at")},
        k \in {1, 2} }

\* one call with whatever cursor the caller sends
PageAt(q, cursor) ==
    /\ pager' = Turned(NoPager, q, cursor)
    /\ UNCHANGED <<store, users, cache, cache_providers, active_provider_name,
                   now, result, store0, users0, result0, creator, hist, procs,
                   rowlock>>

NextCursor ==
    \/ \E i \in IDS : CreateAt(i, Client("client-1"), "u1", NoTags, FALSE, NoTime)
    \/ Tick
    \/ \E q \in CURSOR_QUERIES, c \in CURSORS : PageAt(q, c)

SpecCursor == InitPage /\ [][NextCursor]_vars

\* (under SpecCursor)
\* the text decodes to something other than a JSON object that holds the sort
\* field, as an ISO-8601 string, and the id
Malformed(cursor, name) ==
    /\ CursorGiven(cursor)
    /\ \/ cursor.form # "object"
       \/ ~CursorWellFormed(cursor, name)
       \/ "iso" \notin DOMAIN cursor.b64[name]

\* C12: search_raw_memories given a malformed cursor raises the ValueError
\* 'Invalid cursor format' and returns no page.
C12_MalformedCursorIsInvalidFormat ==
    (pager.active /\ Malformed(pager.given, pager.q.sort.name))
    => pager.kind = "ValueError: Invalid cursor format"

----------------------------------------------------------------------------
(* Pages of a table with more rows than the largest page *)

\* how many records of the organization the table holds, give or take one
ManyRows == 101

\* n records of org1 created by client-1 in one instant, with occurred_at
\* values that repeat, and one record of another organization
ManyStore(n) ==
    [i \in 1..(n + 1) |->
       NewRow([id |-> i, context |-> <<"c1">>, filter_tags |-> NoTags,
               occurred_at |-> SomeTime(i % 2)],
              IF i <= n THEN Client("client-1") ELSE Client("client-3"),
              "u1", NoneStr, TRUE, NoneStr, 0)]

LIMIT_QUERIES ==
    { Query("org1", NoneStr, NoTags, s, NoRange, k) :
        s \in SORTS, k \in {0, 50, 100, 101, 200} }

InitLimit ==
    /\ \E n \in {ManyRows - 1, ManyRows, ManyRows + 1} :
          /\ store = ManyStore(n)
          /\ store0 = ManyStore(n)
          /\ creator = [i \in 1..(n + 1) |->
                          IF i <= n THEN Client("client-1") ELSE Client("client-3")]
    /\ users = Tag("u1", AutoUser("u1", Client("client-1")))
    /\ users0 = users
    /\ cache = EmptyCache
    /\ cache_providers = EmptyDict /\ active_provider_name = NoneStr
    /\ now = 0
    /\ result = Idle
    /\ result0 = Idle
    /\ hist = NoHist
    /\ rowlock = EmptyDict
    /\ procs = NoProcs
    /\ pager = NoPager

NextLimit ==
    \/ \E q \in LIMIT_QUERIES : PageFirst(q)
    \/ PageNext

SpecLimit == InitLimit /\ [][NextLimit]_vars

\* (under SpecLimit)
\* the selected records that lie beyond the cursor the caller sent
Remaining(pg) ==
    { i \in Selected(pg.q) :
        CursorGiven(pg.given) =>
          BeyondCursor(store[i], pg.given, pg.q.sort.name, pg.q.sort.dashes > 0) }

\* the page is no longer than min(limit, 100); a next_cursor comes with it
\* exactly when selected records remain beyond the page, and it is made of the
\* sort value and the id of the last record of the page
PageIsRight(pg) ==
    /\ pg.kind = "ok"
    /\ Len(pg.page) <= Min(pg.q.limit, MAX_LIMIT)
    /\ pg.cursor.some <=> Cardinality(Remaining(pg)) > Len(pg.page)
    /\ pg.cursor.some =>
         pg.cursor = EncodeCursor(pg.q.sort.name, store[pg.page[Len(pg.page)]])

\* C13, as stated: every call of search_raw_memories returns a right page.
C13_EveryPageIsRight ==
    pager.active => PageIsRight(pager)

\* C13, amended: every call of search_raw_memories with limit >= 1 returns at
\* most min(limit, 100) items and a next_cursor, built from the last returned
\* row's sort value and id, exactly when more matching rows exist beyond the
\* page.
C13_PageIsRightForPositiveLimit ==
    (pager.active /\ pager.q.limit >= 1) => PageIsRight(pager)

\* limit 200 on more than 100 records: a page of 100 and a cursor
C13_Witness ==
    /\ pager.active /\ pager.kind = "ok"
    /\ pager.q.limit > MAX_LIMIT
    /\ Len(pager.page) = MAX_LIMIT
    /\ pager.cursor.some
    /\ Cardinality(Selected(pager.q)) > MAX_LIMIT

----------------------------------------------------------------------------
(* What update_raw_memory writes (Spec) *)

\* the step is an update_raw_memory call that succeeded
UpdateOk ==
    /\ result'.op = "update" /\ result'.kind = "ok"
    /\ Update(result'.memory_id, result'.actor, result'.args)

\* C14: an update_raw_memory with tags_merge_mode replace and new_filter_tags
\* without a scope key stores exactly the supplied tags plus the scope the
\* record had, and the record is still readable by the updating actor.
C14_ReplaceKeepsOnlyNewTagsAndScope ==
    [][LET i == result'.memory_id
           u == result'.args
       IN (/\ UpdateOk
           /\ u.new_filter_tags.some /\ u.tags_merge_mode = "replace"
           /\ "scope" \notin DOMAIN u.new_filter_tags.tags)
          => /\ DOMAIN store'[i].filter_tags = DOMAIN u.new_filter_tags.tags \cup {"scope"}
             /\ \A k \in DOMAIN u.new_filter_tags.tags :
                   store'[i].filter_tags[k] = u.new_filter_tags.tags[k]
             /\ store'[i].filter_tags["scope"] = store[i].filter_tags["scope"]
             /\ result'.item.filter_tags = store'[i].filter_tags
             /\ get_raw_memory_by_id(Tables(store', users', cache'), Provider, i,
                                     result'.actor, NoneStr).res.kind = "ok"]_vars

C14_Witness ==
    /\ result.op = "update" /\ result.kind = "ok"
    /\ result.args.tags_merge_mode = "replace"
    /\ result.args.new_filter_tags = SomeTags(Tag("k2", "y"))
    /\ store[result.memory_id].filter_tags = DictSet(Tag("k2", "y"), "scope", "read_write")
    /\ result.actor.scope = "read_write"

\* C15: an update_raw_memory with tags_merge_mode merge stores every key the
\* record had and the update does not name, with its value, the scope among
\* them, and every supplied key with the supplied value, and nothing else.
C15_MergeKeepsOldAndAddsNew ==
    [][LET i == result'.memory_id
           u == result'.args
       IN (UpdateOk /\ u.new_filter_tags.some /\ u.tags_merge_mode = "merge")
          => /\ DOMAIN store'[i].filter_tags =
                  DOMAIN store[i].filter_tags \cup DOMAIN u.new_filter_tags.tags
             /\ \A k \in DOMAIN store[i].filter_tags \ DOMAIN u.new_filter_tags.tags :
                   store'[i].filter_tags[k] = store[i].filter_tags[k]
             /\ \A k \in DOMAIN u.new_filter_tags.tags :
                   store'[i].filter_tags[k] = u.new_filter_tags.tags[k]
             /\ store'[i].filter_tags["scope"] = store[i].filter_tags["scope"]
             /\ result'.item.filter_tags = store'[i].filter_tags]_vars

C15_Witness ==
    /\ result.op = "update" /\ result.kind = "ok"
    /\ result.args.tags_merge_mode = "merge"
    /\ result.args.new_filter_tags = SomeTags(Tag("k2", "y"))
    /\ store[result.memory_id].filter_tags =
         DictSet(DictSet(Tag("k1", "x"), "k2", "y"), "scope", "read_write")

\* C16: an update_raw_memory with new_context C2 on a record with context C1
\* stores C1, a blank line, C2 in append mode and exactly C2 in replace mode;
\* without new_context the context stays as it was.
C16_ContextAppendReplaceKeep ==
    [][LET i == result'.memory_id
           u == result'.args
       IN UpdateOk
          => /\ (u.new_context.some /\ u.context_update_mode = "append")
                  => store'[i].context = store[i].context \o <<"\n\n">> \o u.new_context.text
             /\ (u.new_context.some /\ u.context_update_mode = "replace")
                  => store'[i].context = u.new_context.text
             /\ ~u.new_context.some => store'[i].context = store[i].context
             /\ result'.item.context = store'[i].context]_vars

C16_Witness ==
    /\ result.op = "update" /\ result.kind = "ok"
    /\ result.args.context_update_mode = "append"
    /\ result.args.new_context = SomeText(<<"c2">>)
    /\ store[result.memory_id].context = <<"c1", "\n\n", "c2">>
    /\ ~result.args.new_filter_tags.some

----------------------------------------------------------------------------
(* Callers that name a user (SpecUser) *)

\* updates on behalf of the owning user, of another user, of nobody
USER_UPDATES ==
    { Upd(SomeText(<<"c2">>), "append", NoTags, "replace", "u1"),
      Upd(SomeText(<<"c2">>), "append", NoTags, "replace", "u2"),
      Upd(NoText, "replace", SomeTags(Tag("k2", "y")), "merge", NoneStr),
      Upd(NoText, "replace", SomeTags(Tag("scope", "admin")), "merge", "u2"),
      Upd(NoText, "replace", SomeTags(Tag("k2", "y")), "replace", "") }

NextUser == SeqNext({1}, {Client("client-1")}, {Client("client-1"), Client("client-2")},
                    {NoTags}, USER_UPDATES, {NoneStr, "", "u1", "u2"})

SpecUser == Init /\ [][NextUser]_vars

\* C17: for an actor of the record's organization and scope, a user_id that
\* is supplied and is not the record's makes get_raw_memory_by_id raise
\* NoResultFound, update_raw_memory raise the ValueError 'not found' and
\* delete_raw_memory return False, each leaving the table as it was; with the
\* record's user_id, or with none, the same calls succeed.
C17_OtherUserIsNotFound ==
    [][LET i    == result'.memory_id
           a    == result'.actor
           mine == i \in DOMAIN store /\ MayWrite(store[i], a)
       IN /\ (result'.op = "get" /\ Get(i, a, result'.args.user_id) /\ mine)
             => IF UserMismatch(result'.args.user_id, store[i])
                THEN result'.kind = "NoResultFound" /\ store' = store /\ cache' = cache
                ELSE result'.kind = "ok" /\ result'.item.id = i /\ store' = store
          /\ (result'.op = "update" /\ Update(i, a, result'.args) /\ mine)
             => IF UserMismatch(result'.args.user_id, store[i])
                THEN /\ result'.kind = "ValueError: not found"
                     /\ store' = store /\ cache' = cache
                ELSE ~ScopeTamper(result'.args, a) => result'.kind = "ok"
          /\ (result'.op = "delete" /\ Delete(i, a, result'.args.user_id) /\ mine)
             => IF UserMismatch(result'.args.user_id, store[i])
                THEN result'.kind = "False" /\ store' = store /\ cache' = cache
                ELSE result'.kind = "True" /\ i \notin DOMAIN store']_vars

\* a delete on behalf of another user, refused, on a record that is cached
C17_Witness ==
    /\ result.op = "delete" /\ result.kind = "False"
    /\ result.args.user_id = "u2"
    /\ result.memory_id \in DOMAIN store
    /\ MayWrite(store[result.memory_id], result.actor)
    /\ store[result.memory_id].user_id = "u1"
    /\ Cached(result.memory_id)

----------------------------------------------------------------------------
(* Creates for users known and unknown (SpecCreate) *)

NextCreate ==
    \/ \E i \in IDS, a \in {Client("client-1"), Client("client-3")},
          uid \in {NoneStr, "", "u1", "u2"}, uc \in BOOLEAN :
          CreateAt(i, a, uid, NoTags, uc, NoTime)
    \/ \E i \in IDS, a \in {Client("client-1"), Client("client-3")} :
          Delete(i, a, NoneStr)
    \/ Tick

SpecCreate == Init /\ [][NextCreate]_vars

\* C18: a create_raw_memory that succeeds for a user_id without a user row
\* leaves a user row with that id, named by the id, active, not an admin, in
\* the actor's organization, and a memory row whose user_id is that id; every
\* other user row is as it was, and a known user's row is not touched.
C18_UnknownUserIsCreatedWithTheMemory ==
    [][LET i   == result'.memory_id
           a   == result'.actor
           uid == result'.args.user_id
       IN (/\ result'.op = "create" /\ result'.kind = "ok"
           /\ \E uc \in BOOLEAN : CreateAt(i, a, uid, result'.args.raw_memory.filter_tags,
                                           uc, result'.args.raw_memory.occurred_at))
          => /\ i \in DOMAIN store' /\ store'[i].user_id = uid
             /\ store'[i].organization_id = a.organization_id
             /\ DOMAIN users' = DOMAIN users \cup {uid}
             /\ \A v \in DOMAIN users : users'[v] = users[v]
             /\ uid \notin DOMAIN users
                  => /\ users'[uid].id = uid /\ users'[uid].name = uid
                     /\ users'[uid].organization_id = a.organization_id
                     /\ users'[uid].status = "active"
                     /\ ~users'[uid].is_admin /\ ~users'[uid].is_deleted]_vars

\* client-3 has created a memory for a user nobody had created, next to a
\* user of another organization
C18_Witness ==
    /\ result.op = "create" /\ result.kind = "ok"
    /\ result.actor.id = "client-3"
    /\ result.args.user_id = "u2"
    /\ "u1" \in DOMAIN users /\ users["u1"].organization_id = "org1"
    /\ users["u2"].organization_id = "org2"
    /\ store[result.memory_id].user_id = "u2"

----------------------------------------------------------------------------
(* A cache that fails (SpecFault) *)

CACHE_CALLS == {"get_json", "set_json", "delete"}

\* the client raises and the provider answers None or False in its place, or
\* the provider raises and the manager catches it
FAULT_WAYS == {"returns", "raises"}

FAULTS ==
    {EmptyDict} \cup {Tag(op, w) : op \in CACHE_CALLS, w \in FAULT_WAYS}
                \cup {[op \in CACHE_CALLS |-> "raises"]}

\* the cache backend breaks, or recovers
Fault(f) ==
    /\ Faults(cache) # f
    /\ cache' = DictSet(cache, "faults", f)
    /\ UNCHANGED <<store, users, cache_providers, active_provider_name, now,
                   result, store0, users0, result0, creator, hist, procs, rowlock,
                   pager>>

NextFault ==
    \/ SeqNext({1}, {Client("client-1")}, {Client("client-1"), Client("client-2")},
               {NoTags},
               {Upd(SomeText(<<"c2">>), "append", NoTags, "replace", NoneStr)},
               {NoneStr})
    \/ \E f \in FAULTS : Fault(f)

SpecFault == Init /\ [][NextFault]_vars

\* the cache calls a handler makes: the read always asks the cache and fills
\* it after a read from the table; update and delete invalidate after commit
CacheCallFailed(c, prov, res, hit) ==
    /\ prov # NoneStr
    /\ \/ res.op = "get" /\ Failing(c, "get_json")
       \/ res.op = "get" /\ ~hit /\ res.kind = "ok" /\ Failing(c, "set_json")
       \/ res.op = "update" /\ res.kind = "ok" /\ Failing(c, "delete")
       \/ res.op = "delete" /\ res.kind = "True" /\ Failing(c, "delete")

\* C19: a get_raw_memory_by_id, update_raw_memory or delete_raw_memory during
\* which a cache call fails returns what the same call returns with no provider
\* registered, and leaves the table and the users as that call leaves them.
C19_CacheFailureIsSwallowed ==
    [][LET i == result'.memory_id
           a == result'.actor
           hit == Provider # NoneStr
                  /\ get_json(cache, Provider, CacheKey(i)).hit
       IN (/\ \/ result'.op = "get" /\ Get(i, a, result'.args.user_id)
              \/ result'.op = "update" /\ Update(i, a, result'.args)
              \/ result'.op = "delete" /\ Delete(i, a, result'.args.user_id)
           /\ CacheCallFailed(cache, Provider, result', hit))
          => /\ result' = result0'
             /\ store' = store0'
             /\ users' = users0']_vars

\* the read of a record whose cached document is out of date, the invalidation
\* of the update before it having failed, while the cache read fails
C19_Witness ==
    /\ result.op = "get" /\ result.kind = "ok"
    /\ Failing(cache, "get_json")
    /\ Cached(result.memory_id)
    /\ cache[Provider][CacheKey(result.memory_id)].context # result.item.context
    /\ result.item.context = store[result.memory_id].context
    /\ result = result0

----------------------------------------------------------------------------
(* Reads by actors without a right to the record (Spec) *)

\* the record is the actor's to read: its organization, its scope, and the
\* user asked for, if one is
Entitled(row, actor, user_id) ==
    MayWrite(row, actor) /\ ~UserMismatch(user_id, row)

\* C20: a get_raw_memory_by_id by an actor without a right to the record (of
\* another scope, of another organization, or asking for another user) raises
\* NoResultFound and writes nothing to the cache, as the same call does for an
\* id with no record.
C20_ForbiddenReadsLookLikeAbsentOnes ==
    [][LET i   == result'.memory_id
           a   == result'.actor
           uid == result'.args.user_id
       IN (/\ result'.op = "get" /\ Get(i, a, uid)
           /\ i \in DOMAIN store => ~Entitled(store[i], a, uid))
          => /\ result'.kind = "NoResultFound"
             /\ cache' = cache]_vars

----------------------------------------------------------------------------
(* The provider registry (SpecRegistry) *)

\* names a host may register under; the empty string is a str like any other
REGISTRY_NAMES == PROVIDER_NAMES \cup {""}

Reg == Registry(cache_providers, active_provider_name)

\* the caller holds the mapping get_registered_providers returned last
Held == result.op = "get_registered_providers"

\* a call that may change the registry: its arguments and the active name it
\* found
RegistryCall(op, name, provider) ==
    [op |-> op, memory_id |-> 0, actor |-> NoActor, cached |-> FALSE,
     item |-> [name |-> name, provider |-> provider,
               active |-> active_provider_name]]

\* a change of the registry, seen through a held mapping that is the registry
SetRegistry(r) ==
    /\ cache_providers' = r.reg
    /\ active_provider_name' = r.active
    /\ result' = IF Held /\ result.item.is_registry
                 THEN [result EXCEPT !.item.map = r.reg] ELSE result

Register(name, provider) ==
    /\ SetRegistry(register_cache_provider(Reg, name, provider))
    /\ hist' = RegistryCall("register_cache_provider", name, provider)
    /\ UNCHANGED <<store, users, cache, now, store0, users0, result0, creator,
                   procs, rowlock, pager>>

Unregister(name) ==
    /\ SetRegistry(unregister_cache_provider(Reg, name))
    /\ hist' = RegistryCall("unregister_cache_provider", name, NoneStr)
    /\ UNCHANGED <<store, users, cache, now, store0, users0, result0, creator,
                   procs, rowlock, pager>>

GetCacheProvider ==
    /\ result' = Res("get_cache_provider", 0, NoActor, NoArgs, "ok",
                     get_cache_provider(cache_providers, active_provider_name))
    /\ UNCHANGED <<store, users, cache, cache_providers, active_provider_name,
                   now, store0, users0, result0, creator, hist, procs, rowlock,
                   pager>>

GetRegisteredProviders ==
    /\ result' = Res("get_registered_providers", 0, NoActor, NoArgs, "ok",
                     get_registered_providers(cache_providers))
    /\ UNCHANGED <<store, users, cache, cache_providers, active_provider_name,
                   now, store0, users0, result0, creator, hist, procs, rowlock,
                   pager>>

\* the caller writes to the mapping it was handed, or deletes from it
ChangeHeld(map) ==
    /\ Held
    /\ map # result.item.map
    /\ result' = [result EXCEPT !.item.map = map]
    /\ cache_providers' = IF result.item.is_registry THEN map ELSE cache_providers
    /\ hist' = RegistryCall("caller", NoneStr, NoneStr)
    /\ UNCHANGED <<store, users, cache, active_provider_name, now, store0,
                   users0, result0, creator, procs, rowlock, pager>>

NextRegistry ==
    \/ \E n \in REGISTRY_NAMES, p \in PROVIDER_OBJECTS : Register(n, p)
    \/ \E n \in REGISTRY_NAMES : Unregister(n)
    \/ GetCacheProvider
    \/ GetRegisteredProviders
    \/ \E n \in REGISTRY_NAMES, p \in PROVIDER_OBJECTS :
          ChangeHeld(DictSet(result.item.map, n, p))
    \/ \E n \in REGISTRY_NAMES : ChangeHeld(DictDel(result.item.map, n))

InitRegistry ==
    /\ InitTables
    /\ cache_providers = EmptyDict /\ active_provider_name = NoneStr
    /\ procs = NoProcs
    /\ pager = NoPager

SpecRegistry == InitRegistry /\ [][NextRegistry]_vars

\* C21: get_cache_provider returns the provider object of the most recent
\* register_cache_provider call when no other call changed the registry after
\* it, and None while nothing was ever registered.
C21_LastRegistrationWins ==
    [][(result'.op = "get_cache_provider" /\ GetCacheProvider)
       => /\ hist.op = "register_cache_provider"
               => result'.item = hist.item.provider
          /\ hist.op = "none" => result'.item = NoneStr]_vars

\* C22: unregister_cache_provider(name) leaves no entry under name and every
\* other entry as it was; when name was the active provider,
\* get_cache_provider returns None afterwards, whatever else is registered;
\* when it was not active, or not registered, the active provider is the same
\* as before.
C22_UnregisterClearsOnlyItsOwn ==
    [][LET n == hist'.item.name
           was == get_cache_provider(cache_providers, active_provider_name)
           is == get_cache_provider(cache_providers', active_provider_name')
       IN (hist'.op = "unregister_cache_provider" /\ Unregister(n))
          => /\ n \notin DOMAIN cache_providers'
             /\ DOMAIN cache_providers' = DOMAIN cache_providers \ {n}
             /\ \A m \in DOMAIN cache_providers' :
                   cache_providers'[m] = cache_providers[m]
             /\ IF n \in DOMAIN cache_providers /\ active_provider_name = n
                THEN is = NoneStr
                ELSE is = was /\ active_provider_name' = active_provider_name]_vars

\* the active provider was unregistered while another stayed registered, and
\* get_cache_provider then returned None
C22_Witness ==
    /\ hist.op = "unregister_cache_provider"
    /\ hist.item.name = "ips_cache" /\ hist.item.active = "ips_cache"
    /\ "redis" \in DOMAIN cache_providers
    /\ result.op = "get_cache_provider" /\ result.item = NoneStr

\* C23: get_registered_providers returns the entries of the registry in a
\* mapping of its own: whatever the caller then writes to or deletes from that
\* mapping leaves the registry and the active provider as they were, and a
\* later register or unregister leaves the mapping as it was.
C23_RegisteredProvidersIsASnapshot ==
    [][/\ (result'.op = "get_registered_providers" /\ GetRegisteredProviders)
          => result'.item.map = cache_providers
       /\ (Held /\ result'.op = "get_registered_providers")
          => /\ result'.item.map # result.item.map
                  => /\ cache_providers' = cache_providers
                     /\ active_provider_name' = active_provider_name
             /\ (\/ cache_providers' # cache_providers
                 \/ active_provider_name' # active_provider_name)
                  => result'.item = result.item]_vars

\* the caller added an entry to the mapping it held, and the provider it had
\* found there was unregistered afterwards
C23_Witness ==
    /\ Held
    /\ hist.op = "unregister_cache_provider" /\ hist.item.name = "redis"
    /\ DOMAIN result.item.map = {"redis", "ips_cache"}
    /\ cache_providers = EmptyDict

----------------------------------------------------------------------------
(* Sort strings (SpecSort) *)

\* what callers send as sort: up to two leading "-", then a column that may be
\* sorted by, another column, something that is no column, or nothing
SORT_TEXTS ==
    { Sort(d, n) : d \in 0..2,
                   n \in VALID_SORT_FIELDS \cup {"id", "Updated_At", ""} }

SORT_QUERIES == { Query("org1", NoneStr, NoTags, s, NoRange, 2) : s \in SORT_TEXTS }

NextSort ==
    \/ \E i \in IDS : CreateAt(i, Client("client-1"), "u1", NoTags, FALSE, NoTime)
    \/ Tick
    \/ \E q \in SORT_QUERIES : PageAt(q, NoCursor)

SpecSort == InitPage /\ [][NextSort]_vars

\* C24: search_raw_memories runs its query for exactly the six sort strings
\* created_at, -created_at, updated_at, -updated_at, occurred_at and
\* -occurred_at; for every other sort string it raises the 'Invalid sort field'
\* ValueError and returns nothing.
C24_OnlySixSortValues ==
    pager.active =>
       IF pager.q.sort \in SORTS
       THEN pager.kind = "ok"
       ELSE /\ pager.kind = "ValueError: Invalid sort field"
            /\ pager.page = <<>>

----------------------------------------------------------------------------
(* Calls on ids that have no record (SpecTwo, Spec) *)

\* C25: an update_raw_memory for an id with no row raises the 'not found'
\* ValueError and leaves the table, the users and the cache as they were: no
\* row appears under the id and no other row changes.
C25_UpdateOfMissingIdIsNotFound ==
    [][LET i == result'.memory_id
       IN (/\ result'.op = "update" /\ Update(i, result'.actor, result'.args)
           /\ i \notin DOMAIN store)
          => /\ result'.kind = "ValueError: not found"
             /\ store' = store
             /\ users' = users
             /\ cache' = cache]_vars

\* an update of an id that was deleted, next to a record that exists
C25_Witness ==
    /\ result.op = "update" /\ result.kind = "ValueError: not found"
    /\ result.memory_id \notin DOMAIN store
    /\ hist.op = "delete" /\ hist.memory_id = result.memory_id
    /\ \E j \in DOMAIN store : j # result.memory_id /\ Cached(j)

\* C26: a delete_raw_memory for an id with no row in the actor's organization
\* returns False and leaves the table and the cache as they were; a second
\* delete right after one that returned True returns False.
C26_DeleteOfMissingIdIsFalse ==
    [][LET i == result'.memory_id
           a == result'.actor
       IN (result'.op = "delete" /\ Delete(i, a, result'.args.user_id))
          => /\ (i \in DOMAIN store => store[i].organization_id # a.organization_id)
                  => /\ result'.kind = "False"
                     /\ store' = store
                     /\ cache' = cache
             /\ (result.op = "delete" /\ result.kind = "True"
                 /\ result.memory_id = i)
                  => result'.kind = "False"]_vars

\* the second delete of a record by the actor that deleted it
C26_Witness ==
    /\ result.op = "delete" /\ result.kind = "False"
    /\ hist.op = "delete" /\ hist.memory_id = result.memory_id
    /\ hist.actor = result.actor /\ hist.cached
    /\ result.memory_id \notin DOMAIN store

----------------------------------------------------------------------------
(* Creates without a user (SpecCreate) *)

\* C27: a create_raw_memory whose user_id is None or the empty string raises
\* the 'user_id is required' ValueError and leaves the users, the table and
\* the cache as they were.
C27_EmptyUserIdIsRejectedFirst ==
    [][LET uid == result'.args.user_id
       IN (/\ result'.op = "create" /\ ~Truthy(uid)
           /\ \E uc \in BOOLEAN :
                 CreateAt(result'.memory_id, result'.actor, uid,
                          result'.args.raw_memory.filter_tags, uc,
                          result'.args.raw_memory.occurred_at))
          => /\ result'.kind = "ValueError: user_id is required"
             /\ users' = users
             /\ store' = store
             /\ cache' = cache]_vars

\* a create with the empty string as user_id, refused, with a provider active
\* and another record stored
C27_Witness ==
    /\ result.op = "create"
    /\ result.kind = "ValueError: user_id is required"
    /\ result.args.user_id = ""
    /\ Provider # NoneStr
    /\ result.memory_id \notin DOMAIN store
    /\ store # EmptyDict
    /\ "" \notin DOMAIN users

----------------------------------------------------------------------------
(* Search filters (SpecSearch) *)

\* who creates records, for which user and with which tags
SEARCH_WRITERS ==
    { <<Client("client-1"), "u1", NoTags>>,
      <<Client("client-1"), "u2", SomeTags(Tag("k1", "x"))>>,
      <<Client("client-2"), "u1", SomeTags(Tag("k1", "y"))>>,
      <<Client("client-3"), "u1", NoTags>> }

SEARCH_TAGS ==
    { NoTags, SomeTags(Tag("k1", "x")), SomeTags(Tag("scope", "WRITE")),
      SomeTags(Tag("scope", "a_min")),
      SomeTags(DictSet(Tag("k1", "y"), "scope", "admin")) }

SEARCH_RANGES ==
    { NoRange,
      [k \in {<<"created_at", "gte">>} |-> 1],
      [k \in {<<"occurred_at", "lte">>, <<"updated_at", "gte">>} |-> 0] }

SEARCH_QUERIES ==
    { Query("org1", u, g, Sort(1, "updated_at"), r, 1) :
        u \in {NoneStr, "u1"}, g \in SEARCH_TAGS, r \in SEARCH_RANGES }

NextSearch ==
    \/ \E i \in IDS, w \in SEARCH_WRITERS, o \in OCCURRED :
          CreateAt(i, w[1], w[2], w[3], FALSE, o)
    \/ Tick
    \/ \E q \in SEARCH_QUERIES : PageFirst(q)
    \/ PageNext

SpecSearch == InitPage /\ [][NextSearch]_vars

\* the record satisfies every predicate the query supplies
Satisfies(row, q) ==
    /\ row.organization_id = q.organization_id
    /\ q.user_id # NoneStr => row.user_id = q.user_id
    /\ \A k \in DOMAIN q.filter_tags.tags :
          /\ k \in DOMAIN row.filter_tags
          /\ IF k = "scope"
             THEN Contains(Lower(Chars(row.filter_tags[k])),
                           Lower(Chars(q.filter_tags.tags[k])))
             ELSE row.filter_tags[k] = q.filter_tags.tags[k]
    /\ \A b \in DOMAIN q.time_range :
          IF b[2] = "gte" THEN SortValue(row, b[1]) >= q.time_range[b]
          ELSE SortValue(row, b[1]) <= q.time_range[b]

\* C28: the pages of a search over a table that did not change hold only
\* records that satisfy every supplied predicate -- the organization, the user
\* when given, each filter tag by equality, the scope tag by case-insensitive
\* containment, each inclusive time bound -- and, once next_cursor is None,
\* all of them.
C28_SearchReturnsExactlyTheMatches ==
    (pager.active /\ ~pager.dirty) =>
       /\ pager.kind = "ok"
       /\ \A i \in Range(pager.seen) : Satisfies(store[i], pager.q)
       /\ pager.done =>
            Range(pager.seen) = { i \in DOMAIN store : Satisfies(store[i], pager.q) }

----------------------------------------------------------------------------
(* A read racing with a write of the same record (SpecReadRace) *)

READER == "t1"

WRITER == "t2"

\* a thread enters get_raw_memory_by_id
BeginGet(p, memory_id, actor, user_id) ==
    /\ procs[p].pc = "idle"
    /\ procs' = [procs EXCEPT ![p] =
                   [pc |-> "cache_read", op |-> "get", memory_id |-> memory_id,
                    actor |-> actor, args |-> [user_id |-> user_id],
                    began |-> now, row |-> NoItem, res |-> Idle]]
    /\ UNCHANGED <<store, users, cache, cache_providers, active_provider_name,
                   now, result, store0, users0, result0, creator, hist, rowlock,
                   pager>>

\* the cache is asked first: a hit is checked and returned, a miss goes on to
\* the table
GetCacheRead(p) ==
    LET f      == procs[p]
        cached == IF Provider # NoneStr
                  THEN get_json(cache, Provider, CacheKey(f.memory_id))
                  ELSE [hit |-> FALSE, doc |-> EmptyDict]
        item   == from_cached(cached.doc)
    IN
    /\ f.pc = "cache_read"
    /\ procs' = IF ~cached.hit THEN [procs EXCEPT ![p].pc = "store_read"]
                ELSE IF CacheHitDenied(item, f.actor, f.args.user_id)
                THEN [procs EXCEPT ![p].pc = "done",
                         ![p].res = Res("get", f.memory_id, f.actor, f.args,
                                        "NoResultFound", NoItem)]
                ELSE [procs EXCEPT ![p].pc = "done",
                         ![p].res = Res("get", f.memory_id, f.actor, f.args,
                                        "ok", item)]
    /\ UNCHANGED <<store, users, cache, cache_providers, active_provider_name,
                   now, result, store0, users0, result0, creator, hist, rowlock,
                   pager>>

\* the row is read from the table, without a lock, and checked
GetStoreRead(p) ==
    LET f    == procs[p]
        read == StoreRead(store, f.memory_id, f.actor)
    IN
    /\ f.pc = "store_read"
    /\ procs' = IF ~read.found
                   \/ StoreReadDenied(to_pydantic(read.row), f.actor, f.args.user_id)
                THEN [procs EXCEPT ![p].pc = "done",
                         ![p].res = Res("get", f.memory_id, f.actor, f.args,
                                        "NoResultFound", NoItem)]
                ELSE [procs EXCEPT ![p].pc = "populate", ![p].row = read.row,
                         ![p].res = Res("get", f.memory_id, f.actor, f.args,
                                        "ok", to_pydantic(read.row))]
    /\ UNCHANGED <<store, users, cache, cache_providers, active_provider_name,
                   now, result, store0, users0, result0, creator, hist, rowlock,
                   pager>>

\* the row that was read is written to the cache, and the call returns
GetPopulate(p) ==
    LET f == procs[p] IN
    /\ f.pc = "populate"
    /\ cache' = IF Provider # NoneStr
                THEN set_json(cache, Provider, CacheKey(f.memory_id),
                              model_dump_json(to_pydantic(f.row)))
                ELSE cache
    /\ procs' = [procs EXCEPT ![p].pc = "done"]
    /\ UNCHANGED <<store, users, cache_providers, active_provider_name, now,
                   result, store0, users0, result0, creator, hist, rowlock, pager>>

\* a thread enters delete_raw_memory
BeginDelete(p, memory_id, actor, user_id) ==
    /\ procs[p].pc = "idle"
    /\ procs' = [procs EXCEPT ![p] =
                   [pc |-> "delete_read", op |-> "delete", memory_id |-> memory_id,
                    actor |-> actor, args |-> [user_id |-> user_id],
                    began |-> now, row |-> NoItem, res |-> Idle]]
    /\ UNCHANGED <<store, users, cache, cache_providers, active_provider_name,
                   now, result, store0, users0, result0, creator, hist, rowlock,
                   pager>>

\* the row is read, checked, deleted and the deletion committed
DeleteRow(p) ==
    LET f   == procs[p]
        out == delete_raw_memory(Tables(store, users, EmptyCache), NoneStr,
                                 f.memory_id, f.actor, f.args.user_id)
    IN
    /\ f.pc = "delete_read"
    /\ RowLockFree(rowlock, f.memory_id)
    /\ store' = out.st.store
    /\ store0' = out.st.store
    /\ procs' = [procs EXCEPT ![p].pc = IF out.res.kind = "True"
                                         THEN "deleted" ELSE "done",
                              ![p].res = out.res]
    /\ UNCHANGED <<users, cache, cache_providers, active_provider_name, now,
                   result, users0, result0, creator, hist, rowlock, pager>>

\* after the commit the cache entry is dropped and the call returns
DeleteInvalidate(p) ==
    /\ procs[p].pc = "deleted"
    /\ cache' = InvalidateCache(cache, Provider, procs[p].memory_id)
    /\ procs' = [procs EXCEPT ![p].pc = "done"]
    /\ UNCHANGED <<store, users, cache_providers, active_provider_name, now,
                   result, store0, users0, result0, creator, hist, rowlock, pager>>

\* one reader and one writer on record 1; its cache entry may reach its ttl
NextReadRace ==
    \/ \E uid \in {NoneStr, "u1"} : BeginGet(READER, 1, Client("client-1"), uid)
    \/ GetCacheRead(READER)
    \/ GetStoreRead(READER)
    \/ GetPopulate(READER)
    \/ \E u \in {Upd(SomeText(<<"a1">>), "append", NoTags, "replace", NoneStr),
                 Upd(NoText, "replace", SomeTags(Tag("tag1", "from_thread_1")),
                     "merge", NoneStr)} :
          BeginUpdate(WRITER, 1, Client("client-1"), u)
    \/ UpdateSelect(WRITER)
    \/ UpdateCommit(WRITER)
    \/ UpdateInvalidate(WRITER)
    \/ BeginDelete(WRITER, 1, Client("client-1"), NoneStr)
    \/ DeleteRow(WRITER)
    \/ DeleteInvalidate(WRITER)
    \/ Tick
    \/ \E prov \in PROVIDER_OBJECTS : CacheExpire(prov, 1)

SpecReadRace == InitRace /\ [][NextReadRace]_vars

\* both calls have returned
BothReturned(op) ==
    /\ procs[READER].pc = "done" /\ procs[READER].op = "get"
    /\ procs[WRITER].pc = "done" /\ procs[WRITER].op = op

\* C29: when a get_raw_memory_by_id and an update_raw_memory of the same
\* record have both returned, in whatever order their steps interleaved, the
\* provider holds no document for the id or the document of the committed
\* row, and a get that follows returns the committed row.
C29_ReadNeverRecachesOldValue ==
    (BothReturned("update") /\ procs[WRITER].res.kind = "ok" /\ Provider # NoneStr)
    => /\ Cached(1) => cache[Provider][CacheKey(1)]
                          = model_dump_json(to_pydantic(store[1]))
       /\ get_raw_memory_by_id(Here, Provider, 1, Client("client-1"), NoneStr).res.item
             = to_pydantic(store[1])

\* C30: when a get_raw_memory_by_id and a delete_raw_memory of the same record
\* have both returned and the delete returned True, the provider holds no
\* document for the id and a get that follows raises NoResultFound.
C30_ReadNeverRecachesDeletedRecord ==
    (BothReturned("delete") /\ procs[WRITER].res.kind = "True" /\ Provider # NoneStr)
    => /\ ~Cached(1)
       /\ get_raw_memory_by_id(Here, Provider, 1, Client("client-1"), NoneStr).res.kind
             = "NoResultFound"

----------------------------------------------------------------------------
(* Concurrent creates: create_raw_memory step by step (SpecCreateRace) *)

\* UserModel.create(session): the insert of a user row; the id is the primary
\* key, and a second row with the same id is refused
InsertUser(utbl, user) ==
    IF user.id \in DOMAIN utbl THEN [ok |-> FALSE, users |-> utbl]
    ELSE [ok |-> TRUE, users |-> DictSet(utbl, user.id, user)]

\* a thread enters create_raw_memory with a user_id that is not empty
BeginCreate(p, memory_id, actor, user_id, use_cache) ==
    /\ procs[p].pc = "idle"
    /\ procs' = [procs EXCEPT ![p] =
                   [pc |-> "user_check", op |-> "create", memory_id |-> memory_id,
                    actor |-> actor,
                    args |-> [raw_memory |-> [id |-> memory_id, context |-> <<"c1">>,
                                              filter_tags |-> NoTags,
                                              occurred_at |-> NoTime],
                              user_id |-> user_id, use_cache |-> use_cache],
                    began |-> now, row |-> NoItem, res |-> Idle]]
    /\ UNCHANGED <<store, users, cache, cache_providers, active_provider_name,
                   now, result, store0, users0, result0, creator, hist, rowlock,
                   pager>>

\* user_manager.get_user_by_id(user_id): the user is there, or NoResultFound
CreateUserCheck(p) ==
    /\ procs[p].pc = "user_check"
    /\ procs' = [procs EXCEPT ![p].pc = IF procs[p].args.user_id \in DOMAIN users
                                         THEN "insert" ELSE "user_create"]
    /\ UNCHANGED <<store, users, cache, cache_providers, active_provider_name,
                   now, result, store0, users0, result0, creator, hist, rowlock,
                   pager>>

\* user_manager.create_user(...): the error of a refused insert is logged and
\* raised again
CreateUserInsert(p) ==
    LET f   == procs[p]
        ins == InsertUser(users, AutoUser(f.args.user_id, f.actor))
    IN
    /\ f.pc = "user_create"
    /\ users' = ins.users
    /\ users0' = ins.users
    /\ procs' = IF ins.ok THEN [procs EXCEPT ![p].pc = "insert"]
                ELSE [procs EXCEPT ![p].pc = "done",
                         ![p].res = Res("create", f.memory_id, f.actor, f.args,
                                        "IntegrityError", NoItem)]
    /\ UNCHANGED <<store, cache, cache_providers, active_provider_name, now,
                   result, store0, result0, creator, hist, rowlock, pager>>

\* the row is built and stored, and cached when asked for
CreateInsert(p) ==
    LET f   == procs[p]
        row == NewRow(f.args.raw_memory, f.actor, f.args.user_id, NoneStr, TRUE,
                      NoneStr, now)
        st  == create_with_redis(Here, Provider, row, f.args.use_cache)
    IN
    /\ f.pc = "insert"
    /\ store' = st.store
    /\ store0' = st.store
    /\ cache' = st.cache
    /\ creator' = DictSet(creator, f.memory_id, f.actor)
    /\ procs' = [procs EXCEPT ![p].pc = "done",
                    ![p].res = Res("create", f.memory_id, f.actor, f.args, "ok",
                                   to_pydantic(row))]
    /\ UNCHANGED <<users, cache_providers, active_provider_name, now, result,
                   users0, result0, hist, rowlock, pager>>

\* each thread creates a record of its own, for one of two users
NextCreateRace ==
    \/ \E n \in {1, 2}, uid \in USERS, uc \in BOOLEAN :
          BeginCreate(<<"t1", "t2">>[n], n, Client("client-1"), uid, uc)
    \/ \E p \in THREADS : CreateUserCheck(p)
    \/ \E p \in THREADS : CreateUserInsert(p)
    \/ \E p \in THREADS : CreateInsert(p)
    \/ Tick

InitCreateRace ==
    /\ InitTables
    /\ \/ cache_providers = EmptyDict /\ active_provider_name = NoneStr
       \/ cache_providers = Tag("redis", "P1") /\ active_provider_name = "redis"
    /\ procs = [p \in THREADS |-> IdleFrame]
    /\ pager = NoPager

SpecCreateRace == InitCreateRace /\ [][NextCreateRace]_vars

\* C31: when two create_raw_memory calls for the same user_id, unknown before
\* them, have both returned, in whatever order their steps interleaved, both
\* succeeded, both memories are stored and there is one user row for the id.
C31_ConcurrentCreatesBothSucceed ==
    (/\ \A p \in THREADS : procs[p].pc = "done" /\ procs[p].op = "create"
     /\ procs["t1"].args.user_id = procs["t2"].args.user_id)
    => /\ \A p \in THREADS : procs[p].res.kind = "ok"
       /\ DOMAIN store = {1, 2}
       /\ DOMAIN users = {procs["t1"].args.user_id}

----------------------------------------------------------------------------
(* Pages while records are updated (SpecPageUpdate) *)

\* an update that changes neither context nor tags
Refresh == Upd(NoText, "replace", NoTags, "merge", NoneStr)

NextPageUpdate ==
    \/ \E i \in IDS, o \in OCCURRED :
          CreateAt(i, Client("client-1"), "u1", NoTags, FALSE, o)
    \/ Tick
    \/ \E s \in SORTS : PageFirst(Query("org1", NoneStr, NoTags, s, NoRange, 1))
    \/ PageNext
    \/ \E i \in IDS : Update(i, Client("client-1"), Refresh)

SpecPageUpdate == InitPage /\ [][NextPageUpdate]_vars

\* C32: in a run of search_raw_memories pages, under any of the six sort
\* values, with update_raw_memory calls on matching records between the pages,
\* no record id is handed out on more than one page.
C32_NoRecordTwiceWhileUpdated ==
    pager.active => NoDuplicates(pager.seen)

----------------------------------------------------------------------------
(* Timestamps of a record (Spec) *)

\* C33: every stored record has updated_at >= created_at, and each
\* update_raw_memory that succeeds, also one that changes neither the context
\* nor the tags, leaves the record with updated_at at the time of the call and
\* last_modify = {timestamp: that time, operation: 'updated'}.
C33_UpdateStampsTheRecord ==
    [][/\ \A i \in DOMAIN store' : store'[i].updated_at >= store'[i].created_at
       /\ LET i == result'.memory_id
          IN (/\ result'.op = "update" /\ result'.kind = "ok"
              /\ Update(i, result'.actor, result'.args))
             => /\ store'[i].updated_at = now
                /\ store'[i].last_modify =
                     [timestamp |-> isoformat(now), operation |-> "updated"]
                /\ store'[i].created_at = store[i].created_at]_vars

\* an update with no new context and no new tags, made after the clock moved
C33_Witness ==
    /\ result.op = "update" /\ result.kind = "ok"
    /\ ~result.args.new_context.some /\ ~result.args.new_filter_tags.some
    /\ result.memory_id \in DOMAIN store
    /\ LET row == store[result.memory_id]
       IN /\ row.created_at < row.updated_at
          /\ row.updated_at = now
          /\ row.last_modify.operation = "updated"

----------------------------------------------------------------------------
(* Writes whose embedding call fails (SpecEmbed) *)

\* the embedding configuration of the agent state a caller passes, or none
AGENT_STATES == {NoneStr, "cfg1"}

\* create_raw_memory with the context, the agent state and the fate of the
\* embedding call chosen by the caller
CreateWith(memory_id, actor, user_id, context, agent_state, embed_ok) ==
    /\ memory_id \notin DOMAIN store
    /\ LET req == [id |-> memory_id, context |-> context,
                   filter_tags |-> NoTags, occurred_at |-> NoTime]
       IN Commit(create_raw_memory(Here, Provider, req, actor, user_id,
                                   agent_state, embed_ok, NoneStr, TRUE, now),
                 create_raw_memory(Bare, NoneStr, req, actor, user_id,
                                   agent_state, embed_ok, NoneStr, TRUE, now))
    /\ creator' = DictSet(creator, memory_id, actor)
    /\ hist' = IF hist.memory_id = memory_id THEN NoHist ELSE hist
    /\ pager' = Touched(pager, store, store')
    /\ UNCHANGED <<cache_providers, active_provider_name, now, procs, rowlock>>

\* update requests that carry an agent state: new context, new tags, both
EMBED_UPDATES ==
    { [u EXCEPT !.agent_state = "cfg1", !.embed_ok = ok] :
        u \in { Upd(SomeText(<<"c2">>), "replace", NoTags, "replace", NoneStr),
                Upd(SomeText(<<"c2">>), "append", SomeTags(Tag("k2", "y")),
                    "merge", NoneStr),
                Upd(NoText, "replace", SomeTags(Tag("k2", "y")), "replace",
                    NoneStr) },
        ok \in BOOLEAN }

NextEmbed ==
    \/ \E a \in {Client("client-1"), Client("client-2")}, g \in AGENT_STATES,
          ok \in BOOLEAN : CreateWith(1, a, "u1", <<"c1">>, g, ok)
    \/ \E a \in ACTORS : Get(1, a, NoneStr)
    \/ \E a \in ACTORS, u \in EMBED_UPDATES : Update(1, a, u)
    \/ \E a \in ACTORS : Delete(1, a, NoneStr)
    \/ Tick

SpecEmbed == Init /\ [][NextEmbed]_vars

\* the fields of a row other than the two embedding fields
SansEmbedding(row) ==
    [row EXCEPT !.context_embedding = NoEmbedding, !.embedding_config = NoneStr]

\* C34: a failing embedding call does not block a write. A create_raw_memory
\* whose embedding call fails stores the record, with context_embedding and
\* embedding_config both absent; an update_raw_memory whose embedding call
\* fails ends as the same call with a working embedding would, commits the
\* same context and tags and returns the updated record; neither call hands
\* the caller an error.
C34_EmbeddingFailureDoesNotBlock ==
    [][LET i == result'.memory_id
           a == result'.actor
           r == result'.args
       IN /\ (/\ result'.op = "create"
              /\ CreateWith(i, a, r.user_id, r.raw_memory.context, "cfg1", FALSE))
             => /\ result'.kind = "ok"
                /\ i \in DOMAIN store'
                /\ store'[i].context = r.raw_memory.context
                /\ store'[i].context_embedding = NoEmbedding
                /\ store'[i].embedding_config = NoneStr
                /\ result'.item = to_pydantic(store'[i])
          /\ (/\ result'.op = "update" /\ Update(i, a, r)
              /\ r.agent_state # NoneStr /\ ~r.embed_ok)
             => LET good == update_raw_memory(Here, Provider, i, a,
                                              [r EXCEPT !.embed_ok = TRUE], now)
                IN /\ result'.kind = good.res.kind
                   /\ DOMAIN store' = DOMAIN good.st.store
                   /\ \A j \in DOMAIN store' :
                        SansEmbedding(store'[j]) = SansEmbedding(good.st.store[j])
                   /\ result'.kind = "ok" =>
                        /\ result'.item = to_pydantic(store'[i])
                        /\ store'[i].context =
                             UpdateContext(store[i].context, r.new_context,
                                           r.context_update_mode)]_vars

\* an update that replaced context and tags while its embedding call failed,
\* on a record created with an embedding
C34_Witness ==
    /\ result.op = "update" /\ result.kind = "ok"
    /\ result.args.agent_state # NoneStr /\ ~result.args.embed_ok
    /\ result.args.new_context.some /\ result.args.new_filter_tags.some
    /\ LET row == store[result.memory_id]
       IN /\ row.context_embedding = pad_embeddings(<<"c1">>)
          /\ row.context = <<"c1", SEP, "c2">>
          /\ "k2" \in DOMAIN row.filter_tags

----------------------------------------------------------------------------
(* The read path and the cache (SpecFault) *)

\* C35: with a provider active, a get_raw_memory_by_id that misses the cache
\* and reads the record from the table writes it to the cache under
\* RAW_MEMORY_PREFIX + id (when the cache accepts the write), so that the entry
\* read back is the record of the table; a get that hits the cache answers
\* from the cached document alone, whatever the table holds, and leaves the
\* cache as it was.
C35_MissPopulatesHitAnswersFromCache ==
    [][LET i   == result'.memory_id
           a   == result'.actor
           uid == result'.args.user_id
           key == CacheKey(i)
           hit == get_json(cache, Provider, key).hit
       IN (result'.op = "get" /\ Get(i, a, uid) /\ Provider # NoneStr)
          => /\ (~hit /\ result'.kind = "ok" /\ ~Failing(cache, "set_json"))
                  => /\ key \in DOMAIN cache'[Provider]
                     /\ from_cached(cache'[Provider][key]) = to_pydantic(store[i])
                     /\ result'.item = to_pydantic(store[i])
             /\ hit
                  => /\ cache' = cache
                     /\ LET item == from_cached(cache[Provider][key])
                        IN result' =
                             IF CacheHitDenied(item, a, uid)
                             THEN Res("get", i, a, result'.args,
                                      "NoResultFound", NoItem)
                             ELSE Res("get", i, a, result'.args, "ok", item)]_vars

\* a read after an update, with the cache working: the record of the update is
\* returned and is now the cached document
C35_Witness ==
    /\ result.op = "get" /\ result.kind = "ok"
    /\ hist.op = "update" /\ hist.memory_id = result.memory_id
    /\ hist.item = result.item
    /\ Faults(cache) = EmptyDict
    /\ Cached(result.memory_id)
    /\ from_cached(cache[Provider][CacheKey(result.memory_id)])
         = to_pydantic(store[result.memory_id])

----------------------------------------------------------------------------
(* The active provider name (SpecRegistry) *)

\* C36: after any register_cache_provider and unregister_cache_provider calls
\* the active provider name is None or a key of the registry, and
\* get_cache_provider returns None exactly when the active name is None.
C36_ActiveNameIsNoneOrRegistered ==
    /\ \/ active_provider_name = NoneStr
       \/ active_provider_name \in DOMAIN cache_providers
    /\ get_cache_provider(cache_providers, active_provider_name) = NoneStr
         <=> active_provider_name = NoneStr

----------------------------------------------------------------------------
(* Reads that end in NoResultFound (Spec) *)

\* C37: a get_raw_memory_by_id that raises NoResultFound, the record being
\* absent, of another scope or of another user, writes nothing to the cache:
\* the cache after the call is the cache before it.
C37_NotFoundReadWritesNoCache ==
    [][LET i == result'.memory_id
       IN (/\ result'.op = "get" /\ result'.kind = "NoResultFound"
           /\ Get(i, result'.actor, result'.args.user_id))
          => cache' = cache]_vars

\* a read denied by the checks on the row read from the table, the cache
\* holding no document for the id
C37_Witness ==
    /\ result.op = "get" /\ result.kind = "NoResultFound"
    /\ result.memory_id \in DOMAIN store
    /\ store[result.memory_id].organization_id = result.actor.organization_id
    /\ Provider # NoneStr
    /\ ~Cached(result.memory_id)

----------------------------------------------------------------------------
(* An update racing with a delete of the same record (SpecWriteRace) *)

UPDATER == "t1"

DELETER == "t2"

\* delete_raw_memory: the row is read, without a lock, and checked
DeleteRead(p) ==
    LET f   == procs[p]
        out == delete_raw_memory(Tables(store, users, EmptyCache), NoneStr,
                                 f.memory_id, f.actor, f.args.user_id)
    IN
    /\ f.pc = "delete_read"
    /\ procs' = IF out.res.kind = "True"
                THEN [procs EXCEPT ![p].pc = "delete_write",
                                   ![p].row = store[f.memory_id]]
                ELSE [procs EXCEPT ![p].pc = "done", ![p].res = out.res]
    /\ UNCHANGED <<store, users, cache, cache_providers, active_provider_name,
                   now, result, store0, users0, result0, creator, hist, rowlock,
                   pager>>

\* session.delete and commit: the DELETE waits while another transaction holds
\* the row, then removes the row as it then is. When another delete removed
\* the row after this call read it, the DELETE matches no row: the ORM either
\* warns, and the call returns True, or raises
DeleteWrite(p) ==
    LET f == procs[p] IN
    /\ f.pc = "delete_write"
    /\ RowLockFree(rowlock, f.memory_id)
    /\ store' = DictDel(store, f.memory_id)
    /\ store0' = DictDel(store0, f.memory_id)
    /\ IF f.memory_id \in DOMAIN store
       THEN /\ hist' = Done("delete", f.memory_id, f.actor,
                            to_pydantic(store[f.memory_id]))
            /\ procs' = [procs EXCEPT ![p].pc = "deleted",
                            ![p].res = Res("delete", f.memory_id, f.actor,
                                           f.args, "True", NoItem)]
       ELSE /\ hist' = hist
            /\ \/ procs' = [procs EXCEPT ![p].pc = "deleted",
                               ![p].res = Res("delete", f.memory_id, f.actor,
                                              f.args, "True", NoItem)]
               \/ procs' = [procs EXCEPT ![p].pc = "done",
                               ![p].res = Res("delete", f.memory_id, f.actor,
                                              f.args, "StaleDataError", NoItem)]
    /\ UNCHANGED <<users, cache, cache_providers, active_provider_name, now,
                   result, users0, result0, creator, rowlock, pager>>

\* one update and one delete of record 1, by its creator
NextWriteRace ==
    \/ \E u \in {Upd(SomeText(<<"a1">>), "append", NoTags, "replace", NoneStr),
                 Upd(NoText, "replace", SomeTags(Tag("tag1", "from_thread_1")),
                     "merge", NoneStr),
                 Upd(NoText, "replace", NoTags, "replace", "u1")} :
          BeginUpdate(UPDATER, 1, Client("client-1"), u)
    \/ UpdateSelect(UPDATER)
    \/ UpdateCommit(UPDATER)
    \/ UpdateInvalidate(UPDATER)
    \/ \E uid \in {NoneStr, "u1", "u2"} :
          BeginDelete(DELETER, 1, Client("client-1"), uid)
    \/ DeleteRead(DELETER)
    \/ DeleteWrite(DELETER)
    \/ DeleteInvalidate(DELETER)
    \/ Tick

SpecWriteRace == InitRace /\ [][NextWriteRace]_vars

\* the update and the delete have both returned, the delete with True
BothWritten ==
    /\ procs[UPDATER].pc = "done" /\ procs[UPDATER].op = "update"
    /\ procs[DELETER].pc = "done" /\ procs[DELETER].op = "delete"
    /\ procs[DELETER].res.kind = "True"

----------------------------------------------------------------------------
(* Creates with an empty context (SpecContext) *)

\* creates with and without a context, for users known and unknown, and reads
NextContext ==
    \/ \E i \in IDS, a \in {Client("client-1"), Client("client-3")},
          uid \in {"u1", "u2"}, c \in {<<>>, <<"c1">>} :
          CreateWith(i, a, uid, c, NoneStr, TRUE)
    \/ \E i \in IDS, a \in {Client("client-1"), Client("client-3")} :
          Get(i, a, NoneStr)
    \/ Tick

SpecContext == Init /\ [][NextContext]_vars

\* C39: a create_raw_memory with a user_id and an empty context raises the
\* 'context is missing or empty' ValueError and stores and caches no record;
\* the user step has run by then, so a user_id that was unknown is a user of
\* the actor's organization after the call, and every other user is as before.
C39_EmptyContextFailsAfterUserIsCreated ==
    [][LET i   == result'.memory_id
           a   == result'.actor
           uid == result'.args.user_id
       IN (/\ result'.op = "create" /\ result'.args.raw_memory.context = <<>>
           /\ CreateWith(i, a, uid, <<>>, NoneStr, TRUE))
          => /\ result'.kind = "ValueError: context is missing or empty"
             /\ store' = store
             /\ cache' = cache
             /\ uid \in DOMAIN users'
             /\ uid \notin DOMAIN users => users'[uid] = AutoUser(uid, a)
             /\ \A v \in DOMAIN users' \ {uid} :
                   v \in DOMAIN users /\ users'[v] = users[v]
             /\ \A v \in DOMAIN users : users'[v] = users[v]]_vars

\* the failed create is all that ever happened to the user: no record was
\* stored, and the user exists
C39_Witness ==
    /\ result.op = "create"
    /\ result.kind = "ValueError: context is missing or empty"
    /\ store = EmptyDict
    /\ DOMAIN users = {result.args.user_id}
    /\ users[result.args.user_id].organization_id = result.actor.organization_id

----------------------------------------------------------------------------
(* Concurrent calls of every kind: locks and termination (FairCalls) *)

\* the id a thread creates a record under: each thread has its own
NewId(p) == IF p = "t1" THEN 2 ELSE 3

\* updates by the creator: one that passes the checks, one that fails them
\* after the row is locked
CALL_UPDATES ==
    { Upd(SomeText(<<"a1">>), "append", NoTags, "replace", NoneStr),
      Upd(NoText, "replace", SomeTags(Tag("scope", "admin")), "merge", NoneStr) }

\* a step of the call thread p is in
Step(p) ==
    \/ CreateUserCheck(p) \/ CreateUserInsert(p) \/ CreateInsert(p)
    \/ GetCacheRead(p) \/ GetStoreRead(p) \/ GetPopulate(p)
    \/ UpdateSelect(p) \/ UpdateCommit(p) \/ UpdateInvalidate(p)
    \/ DeleteRead(p) \/ DeleteWrite(p) \/ DeleteInvalidate(p)

\* each thread makes one call: a create, a get, an update or a delete
NextCalls ==
    \/ \E p \in THREADS, uid \in {"u1", "u2"} :
          BeginCreate(p, NewId(p), Client("client-1"), uid, TRUE)
    \/ \E p \in THREADS : BeginGet(p, 1, Client("client-1"), NoneStr)
    \/ \E p \in THREADS, i \in IDS, u \in CALL_UPDATES :
          BeginUpdate(p, i, Client("client-1"), u)
    \/ \E p \in THREADS : BeginDelete(p, 1, Client("client-1"), NoneStr)
    \/ \E p \in THREADS : Step(p)

SpecCalls == InitRace /\ [][NextCalls]_vars

\* every thread that is in a call gets to take the call's next step when that
\* step can be taken
FairCalls == SpecCalls /\ \A p \in THREADS : WF_vars(Step(p))

\* a row lock is held by an update that has selected that row and has not yet
\* committed or failed, and by nothing else
LocksAreOfUpdates ==
    /\ \A i \in DOMAIN rowlock :
          LET f == procs[rowlock[i]]
          IN f.op = "update" /\ f.pc = "locked" /\ f.memory_id = i
    /\ \A p \in THREADS :
          procs[p].pc = "locked" => /\ procs[p].memory_id \in DOMAIN rowlock
                                    /\ rowlock[procs[p].memory_id] = p

\* thread p waits at its SELECT ... FOR UPDATE for a row another thread holds
Blocked(p) ==
    /\ procs[p].pc = "select"
    /\ ~RowLockFree(rowlock, procs[p].memory_id)

\* C40: an update_raw_memory holds no lock but the one on the row it selected,
\* from its SELECT to its commit or its failed check; every call that has
\* begun returns; and an update that waits for a locked row gets past its
\* SELECT.
C40_LocksAreReleasedAndCallsReturn ==
    /\ []LocksAreOfUpdates
    /\ \A p \in THREADS : (procs[p].pc # "idle") ~> (procs[p].pc = "done")
    /\ \A p \in THREADS : Blocked(p) ~> (procs[p].pc \in {"locked", "done"})

\* one update waits for the row while the other holds it, about to fail its
\* check
C40_Witness ==
    /\ Blocked("t2")
    /\ procs["t1"].pc = "locked" /\ rowlock[1] = "t1"
    /\ procs["t1"].memory_id = procs["t2"].memory_id
    /\ UpdateCheck([found |-> TRUE, row |-> procs["t1"].row], procs["t1"].actor,
                   procs["t1"].args.user_id, procs["t1"].args.new_filter_tags)
         # "ok"

====
